---------------------------- MODULE Spec2Model ----------------------------
(***************************************************************************)
(* The bytecode analyzer of src/src/analyze.c: analyze_proto walks a tree  *)
(* of function prototypes depth first, scans the instructions of every     *)
(* prototype once, and fills an InterfaceReport (functions[], globals[]).  *)
(*                                                                         *)
(* Indices (pc, register numbers, record indices, constant indices) are    *)
(* 0-based as in the C code; TLA+ sequences are 1-based, so At(s, i) reads *)
(* element i of a C array.                                                 *)
(***************************************************************************)
EXTENDS Integers, Sequences, FiniteSets, TLC

VARIABLES
    tree,      \* the input: prototype id -> Proto (read only after Init)
    report,    \* InterfaceReport: functions[] and globals[]
    stack,     \* activation records of analyze_function, innermost last
    phase,     \* "init" before analyze_proto, "walk" inside it, "done" after
    writes,    \* history: the global writes handed to upsert_global, in order
    probe,     \* the last result of a helper function applied on its own
    heap,      \* the blocks obtained from malloc/calloc/realloc and released
    json       \* the strings report_to_json_string returned, in order

vars == <<tree, report, stack, phase, writes, probe, heap, json>>

At(s, i) == s[i + 1]

NULL == "NULL"     \* a null string pointer
NoProto == 0       \* a null Proto pointer; prototype ids start at 1

\* no helper function was applied on its own yet
NoProbe ==
    [fn |-> "none", pc |-> 0, reg |-> 0, result |-> 0, other |-> 0,
     hash_size |-> 0, array_size |-> 0]

\* heap: live and freed are sets of blocks, fault is the first misuse of
\* memory that happened ("none" when there was none)
EmptyHeap == [live |-> {}, freed |-> {}, fault |-> "none"]

\* a block is named by the pointer that owns it: the field, the index of the
\* function record (-1: the report itself) and the index of the element
\* (-1: no element)
Block(kind, fn, j) == [kind |-> kind, fn |-> fn, j |-> j]

-----------------------------------------------------------------------------
(* Bounds of the explored inputs *)

\* the lists double at most this many times
MaxDoublings == 3

MaxStmts == 4       \* statements of a function in the return-merge inputs
MaxTableStmts == 3  \* statements of a function in the table inputs
MaxProtos == 4      \* prototypes of a walked tree
MaxGap == 34             \* instructions between a value and its use
MaxTrace == 4            \* instructions of a function traced on its own
MaxCalls == 2            \* call statements of a function
MaxCheckpoints == 3      \* entries of a sparse line table
MaxReads == 3            \* read statements of a function
MaxPrefix == 3           \* instructions before a classified return

-----------------------------------------------------------------------------
(* Instruction words (lopcodes.h layout used through GET_OPCODE, GETARG_x) *)
(* An instruction is its raw fields: op (7 bits), a (8), k (1), b (8),      *)
(* c (8).  Bx is the 17 bits k,b,c; Ax is the 25 bits a,k,b,c.              *)

iABC(op, a, b, c, k) == [op |-> op, a |-> a, k |-> k, b |-> b, c |-> c]

iABx(op, a, bx) ==
    [op |-> op, a |-> a, k |-> bx % 2, b |-> (bx \div 2) % 256,
     c |-> (bx \div 512) % 256]

iAx(op, ax) ==
    [op |-> op, a |-> ax % 256, k |-> (ax \div 256) % 2,
     b |-> (ax \div 512) % 256, c |-> (ax \div 131072) % 256]

GET_OPCODE(ins) == ins.op
GETARG_A(ins) == ins.a
GETARG_B(ins) == ins.b
GETARG_C(ins) == ins.c
GETARG_k(ins) == ins.k
GETARG_Bx(ins) == ins.k + 2 * ins.b + 512 * ins.c
GETARG_Ax(ins) == ins.a + 256 * (ins.k + 2 * ins.b + 512 * ins.c)

-----------------------------------------------------------------------------
(* Enumerations *)

RETURN_KIND_UNKNOWN == 0
RETURN_KIND_VOID == 1
RETURN_KIND_TABLE == 2
RETURN_KIND_CALL == 3
RETURN_KIND_UPVALUE == 4
RETURN_KIND_CONSTANT == 5
RETURN_KIND_MULTI == 6
RETURN_KIND_MIXED == 7

CONST_KIND_STRING == 0
CONST_KIND_INTEGER == 1
CONST_KIND_NULL == 4

CALL_KIND_UNKNOWN == 0
CALL_KIND_GLOBAL == 1
CALL_KIND_FIELD == 2
CALL_KIND_METHOD == 3
CALL_KIND_LOCAL == 4

-----------------------------------------------------------------------------
(* Prototypes.  A Proto is a record                                         *)
(*   code        instruction words                                          *)
(*   k           constant pool; an entry is [t |-> "str", s |-> name] or    *)
(*               [t |-> "int"]                                              *)
(*   p           ids of the nested prototypes, in order                     *)
(*   upvalues    names of the captured upvalues (NULL: name stripped)       *)
(*   numparams, is_vararg, linedefined, lastlinedefined                     *)
(*   source      chunk name, or NULL                                        *)
(*   locvars     names of the local variables, parameters first (NULL: name *)
(*               stripped; <<>>: no debug information)                      *)
(*   abslineinfo sparse line table, entries [pc, line]                      *)
(*   lineinfo    dense table of signed deltas, one per instruction, or <<>> *)
(*               when the table is absent                                   *)

sizecode(f) == Len(f.code)
sizek(f) == Len(f.k)
sizep(f) == Len(f.p)
sizeupvalues(f) == Len(f.upvalues)
sizelocvars(f) == Len(f.locvars)

ttisstring(kv) == kv.t = "str"
ttisinteger(kv) == kv.t = "int"
getstr(kv) == kv.s

KStr(s) == [t |-> "str", s |-> s]
KInt == [t |-> "int", i |-> 1]


-----------------------------------------------------------------------------
(* OP_NEWTABLE size decoding *)

\* 1 << (b - 1); the explored instructions keep b - 1 below the width of int
\* 1 << (b - 1) in int.  A shift by 31 or more is undefined: the machine
\* shift takes the count modulo 32 (bit 31 is INT_MIN), a folded shift gives 0.
decode_hash_size(b) ==
    IF b = 0 THEN {0}
    ELSE IF b - 1 < 31 THEN {2 ^ (b - 1)}
    ELSE {0, IF (b - 1) % 32 = 31 THEN -2147483647 - 1
             ELSE 2 ^ ((b - 1) % 32)}

\* decode_array_size without the low bits of C when the size is extended
decode_array_size_DropsLowBits(f, pc) ==
    LET newtable == At(f.code, pc)
        k == GETARG_k(newtable)
        c == GETARG_C(newtable)
        ax == GETARG_Ax(At(f.code, pc + 1))
    IN  IF k = 0 THEN {c}
        ELSE IF pc + 1 < sizecode(f)
                /\ GET_OPCODE(At(f.code, pc + 1)) = "OP_EXTRAARG"
             THEN {(ax % 8388608) * 256}
             ELSE {c}

\* (GETARG_Ax(extra) << 8) | c in int: c is below 256, so the OR is an
\* addition.  From Ax = 2^23 on the shift leaves int; the 32-bit targets of
\* the build keep the low 32 bits of the product.
decode_array_size(f, pc) ==
    LET newtable == At(f.code, pc)
        k == GETARG_k(newtable)
        c == GETARG_C(newtable)
        ax == GETARG_Ax(At(f.code, pc + 1))
        low == ax % 16777216
    IN  IF k = 0 THEN {c}
        ELSE IF pc + 1 < sizecode(f)
                /\ GET_OPCODE(At(f.code, pc + 1)) = "OP_EXTRAARG"
             THEN IF ax < 8388608 THEN {ax * 256 + c}
                  ELSE IF low < 8388608 THEN {low * 256 + c}
                  ELSE {(low - 16777216) * 256 + c}
             ELSE {c}

-----------------------------------------------------------------------------
(* estimated_bytes = 32 + (size_t)(array_size * 16) + (size_t)(hash_size*32) *)
(* The two products are computed in int (32 bits) and then converted to     *)
(* size_t (64 bits).  TLC integers are 32 bits wide, so byte counts are     *)
(* carried in units of 16 bytes (every term is a multiple of 16), and a     *)
(* size_t value v >= 2^63 is carried as v - 2^64.                           *)

\* the value of n wrapped into the signed range of `bits` bits
WrapSigned(n, bits) ==
    LET r == n % (2 ^ bits)
    IN  IF r >= 2 ^ (bits - 1) THEN r - 2 ^ bits ELSE r

\* array_size * 16 in int (32 bits), in units of 16 bytes: the product fits
\* exactly when array_size fits in 28 signed bits.  When the product leaves the
\* range of int the behaviour is undefined: the build either wraps it to 32
\* bits or keeps the wide product it computed for the size_t sum.
ArrayBytes16(array_size) ==
    IF WrapSigned(array_size, 28) = array_size
    THEN {array_size}
    ELSE {WrapSigned(array_size, 28), array_size}

\* hash_size * 32 in int, in units of 16 bytes: exact when hash_size fits in
\* 27 signed bits
HashBytes16(hash_size) ==
    IF WrapSigned(hash_size, 27) = hash_size
    THEN {2 * hash_size}
    ELSE {2 * WrapSigned(hash_size, 27), 2 * hash_size}

\* the values estimated_bytes can take, in units of 16 bytes
EstimatedBytes16(array_size, hash_size) ==
    {2 + x + y : x \in ArrayBytes16(array_size), y \in HashBytes16(hash_size)}

-----------------------------------------------------------------------------
(* Backward scan for the NEWTABLE that produced a register *)

\* the instructions find_reg_source takes for writers of R[A]
RegSourceWriters ==
    {"OP_MOVE", "OP_LOADI", "OP_LOADF", "OP_LOADK", "OP_LOADKX",
     "OP_LOADFALSE", "OP_LFALSESKIP", "OP_LOADTRUE", "OP_LOADNIL",
     "OP_GETUPVAL", "OP_GETTABUP", "OP_GETTABLE", "OP_GETI", "OP_GETFIELD",
     "OP_NEWTABLE", "OP_SELF", "OP_ADDI", "OP_ADDK", "OP_SUBK", "OP_MULK",
     "OP_MODK", "OP_POWK", "OP_DIVK", "OP_IDIVK", "OP_BANDK", "OP_BORK",
     "OP_BXORK", "OP_SHRI", "OP_SHLI", "OP_ADD", "OP_SUB", "OP_MUL", "OP_DIV",
     "OP_IDIV", "OP_MOD", "OP_POW", "OP_BAND", "OP_BOR", "OP_BXOR", "OP_SHL",
     "OP_SHR", "OP_MMBIN", "OP_MMBINI", "OP_MMBINK", "OP_UNM", "OP_BNOT",
     "OP_NOT", "OP_LEN", "OP_CONCAT", "OP_CALL", "OP_TAILCALL", "OP_VARARG"}

RegSourceWindow == 16

RECURSIVE RegSourceScan(_, _, _, _)
\* the loop of find_reg_source from index i down to limit
RegSourceScan(f, i, limit, reg) ==
    IF i < limit THEN -1
    ELSE LET ins == At(f.code, i)
             op == GET_OPCODE(ins)
             a == GETARG_A(ins)
         IN  IF op = "OP_CLOSURE" /\ a = reg THEN 1
             ELSE IF op \in RegSourceWriters /\ a = reg THEN 0
             ELSE RegSourceScan(f, i - 1, limit, reg)

\* 1: a CLOSURE wrote reg, 0: something else did, -1: indeterminate
find_reg_source(f, pc, reg) ==
    RegSourceScan(f, pc - 1,
                  IF pc - RegSourceWindow < 0 THEN 0
                  ELSE pc - RegSourceWindow, reg)

TableStoreOps == {"OP_SETFIELD", "OP_SETTABLE", "OP_SETI", "OP_SETLIST"}

NewtableScanWriters ==
    {"OP_MOVE", "OP_LOADI", "OP_LOADF", "OP_LOADK", "OP_LOADKX",
     "OP_LOADFALSE", "OP_LFALSESKIP", "OP_LOADTRUE", "OP_LOADNIL",
     "OP_GETUPVAL", "OP_GETTABUP", "OP_GETTABLE", "OP_GETI", "OP_GETFIELD",
     "OP_SELF", "OP_ADDI", "OP_ADDK", "OP_SUBK", "OP_MULK", "OP_MODK",
     "OP_POWK", "OP_DIVK", "OP_IDIVK", "OP_BANDK", "OP_BORK", "OP_BXORK",
     "OP_SHRI", "OP_SHLI", "OP_ADD", "OP_SUB", "OP_MUL", "OP_DIV", "OP_IDIV",
     "OP_MOD", "OP_POW", "OP_BAND", "OP_BOR", "OP_BXOR", "OP_SHL", "OP_SHR",
     "OP_MMBIN", "OP_MMBINI", "OP_MMBINK", "OP_UNM", "OP_BNOT", "OP_NOT",
     "OP_LEN", "OP_CONCAT", "OP_CALL", "OP_TAILCALL", "OP_CLOSURE",
     "OP_VARARG"}

RECURSIVE NewtableScan(_, _, _)
\* the loop of find_newtable_for_reg from index i downwards
NewtableScan(f, i, reg) ==
    IF i < 0 THEN -1
    ELSE LET ins == At(f.code, i)
             op == GET_OPCODE(ins)
             a == GETARG_A(ins)
         IN  IF op = "OP_NEWTABLE" /\ a = reg THEN i
             ELSE IF op \in TableStoreOps /\ a = reg
                  THEN NewtableScan(f, i - 1, reg)
             ELSE IF op \in NewtableScanWriters /\ a = reg THEN -1
             ELSE NewtableScan(f, i - 1, reg)

find_newtable_for_reg(f, pc, reg) == NewtableScan(f, pc - 1, reg)

-----------------------------------------------------------------------------
(* Classification of one return instruction *)

RECURSIVE ReturnSourceScan(_, _, _, _)
\* the "other value sources" loop of classify_return from index i down to limit
ReturnSourceScan(f, i, limit, reg) ==
    IF i < limit THEN RETURN_KIND_UNKNOWN
    ELSE LET prev == At(f.code, i)
             pop == GET_OPCODE(prev)
         IN  IF GETARG_A(prev) # reg
             THEN ReturnSourceScan(f, i - 1, limit, reg)
             ELSE IF pop \in {"OP_CALL", "OP_TAILCALL"} THEN RETURN_KIND_CALL
             ELSE IF pop = "OP_GETUPVAL" THEN RETURN_KIND_UPVALUE
             ELSE IF pop \in {"OP_GETTABUP", "OP_GETTABLE", "OP_GETFIELD",
                              "OP_GETI"}
                  THEN RETURN_KIND_UPVALUE
             ELSE IF pop = "OP_CLOSURE" THEN RETURN_KIND_UNKNOWN
             ELSE IF pop \in {"OP_LOADK", "OP_LOADI", "OP_LOADF",
                              "OP_LOADTRUE", "OP_LOADFALSE"}
                  THEN RETURN_KIND_CONSTANT
             ELSE RETURN_KIND_UNKNOWN

ReturnSourceWindow == 24

classify_return(f, pc) ==
    LET ins == At(f.code, pc)
        op == GET_OPCODE(ins)
        reg == GETARG_A(ins)
        b == GETARG_B(ins)
        limit == IF pc - ReturnSourceWindow < 0 THEN 0
                 ELSE pc - ReturnSourceWindow
    IN  IF op = "OP_RETURN0" THEN RETURN_KIND_VOID
        ELSE IF op = "OP_RETURN1"
             THEN IF find_newtable_for_reg(f, pc, reg) >= 0
                  THEN RETURN_KIND_TABLE
                  ELSE ReturnSourceScan(f, pc - 1, limit, reg)
        ELSE IF b = 1 THEN RETURN_KIND_VOID
        ELSE IF b = 0 THEN RETURN_KIND_MULTI
        ELSE IF b = 2 /\ find_newtable_for_reg(f, pc, reg) >= 0
             THEN RETURN_KIND_TABLE
        ELSE IF b > 2 THEN RETURN_KIND_MULTI
        ELSE RETURN_KIND_UNKNOWN

-----------------------------------------------------------------------------
(* Merging the classification of a return site into the function's verdict *)

WeakKind(kind) == kind \in {RETURN_KIND_UNKNOWN, RETURN_KIND_VOID}

\* MergeReturnKind with the MIXED transition left out: the last strong site wins
MergeReturnKind_LastStrongWins(cur, had_real_return, kind) ==
    IF cur = RETURN_KIND_MIXED THEN cur
    ELSE IF ~WeakKind(kind) THEN kind
    ELSE IF cur = RETURN_KIND_UNKNOWN /\ WeakKind(kind)
            /\ kind = RETURN_KIND_VOID /\ ~had_real_return
         THEN RETURN_KIND_VOID
    ELSE cur

\* MergeReturnKind where a VOID site is taken whatever was recorded before
MergeReturnKind_VoidClobbers(cur, had_real_return, kind) ==
    IF cur = RETURN_KIND_MIXED THEN cur
    ELSE IF WeakKind(cur) /\ ~WeakKind(kind) THEN kind
    ELSE IF ~WeakKind(cur) /\ ~WeakKind(kind) /\ kind # cur
         THEN RETURN_KIND_MIXED
    ELSE IF kind = RETURN_KIND_VOID THEN RETURN_KIND_VOID
    ELSE cur

\* MergeReturnKind whose MIXED transition does not test that both kinds are
\* strong
MergeReturnKind_MixesWeak(cur, had_real_return, kind) ==
    IF cur = RETURN_KIND_MIXED THEN cur
    ELSE IF WeakKind(cur) /\ ~WeakKind(kind) THEN kind
    ELSE IF kind # cur /\ cur # RETURN_KIND_UNKNOWN
         THEN RETURN_KIND_MIXED
    ELSE IF cur = RETURN_KIND_UNKNOWN /\ WeakKind(kind)
            /\ kind = RETURN_KIND_VOID /\ ~had_real_return
         THEN RETURN_KIND_VOID
    ELSE cur

\* MergeReturnKind in which only an unknown verdict yields to a strong site:
\* a void verdict recorded first is kept
MergeReturnKind_VoidFirstSticks(cur, had_real_return, kind) ==
    IF cur = RETURN_KIND_MIXED THEN cur
    ELSE IF cur = RETURN_KIND_UNKNOWN /\ ~WeakKind(kind) THEN kind
    ELSE IF ~WeakKind(cur) /\ ~WeakKind(kind) /\ kind # cur
         THEN RETURN_KIND_MIXED
    ELSE IF cur = RETURN_KIND_UNKNOWN /\ WeakKind(kind)
            /\ kind = RETURN_KIND_VOID /\ ~had_real_return
         THEN RETURN_KIND_VOID
    ELSE cur

\* the update of fi->return_kind for a site classified `kind`
MergeReturnKind(cur, had_real_return, kind) ==
    IF cur = RETURN_KIND_MIXED THEN cur
    ELSE IF WeakKind(cur) /\ ~WeakKind(kind) THEN kind
    ELSE IF ~WeakKind(cur) /\ ~WeakKind(kind) /\ kind # cur
         THEN RETURN_KIND_MIXED
    ELSE IF cur = RETURN_KIND_UNKNOWN /\ WeakKind(kind)
            /\ kind = RETURN_KIND_VOID /\ ~had_real_return
         THEN RETURN_KIND_VOID
    ELSE cur

\* the update of fi->had_real_return
MergeHadRealReturn(had_real_return, kind) ==
    had_real_return \/ ~WeakKind(kind)


-----------------------------------------------------------------------------
(* Report construction helpers *)

\* the record push_function returns: memset to zero
ZeroFunctionInfo ==
    [source |-> NULL, line_defined |-> 0, last_line |-> 0,
     param_count |-> 0, is_vararg |-> FALSE,
     is_vararg_used |-> FALSE, is_method |-> FALSE, param_names |-> <<>>,
     upvalue_count |-> 0, upvalue_names |-> <<>>, constants |-> <<>>,
     return_kind |-> RETURN_KIND_UNKNOWN, had_real_return |-> FALSE,
     table_info |-> [array_size |-> 0, hash_size |-> 0,
                     estimated_bytes16 |-> 0, contains_closures |-> FALSE],
     closures |-> <<>>, child_proto_indices |-> <<>>,
     call_sites |-> <<>>, reads |-> <<>>,
     pending_proto |-> <<>>, num_pending |-> 0]

push_function(functions) == Append(functions, ZeroFunctionInfo)

\* push_child_index storing the index of the record before the child's
push_child_index_OffByOne(fi, idx) ==
    [fi EXCEPT !.child_proto_indices = Append(@, idx - 1)]

push_child_index(fi, idx) ==
    [fi EXCEPT !.child_proto_indices = Append(@, idx)]

push_closure(fi, line, nupvals) ==
    [fi EXCEPT !.closures =
        Append(@, [line_defined |-> line, upvalue_count |-> nupvals])]

\* push_read that takes two entries with the same field name for duplicates
push_read_KeyedByField(fi, tbl, field) ==
    IF \E i \in 1..Len(fi.reads) : fi.reads[i].field_name = field
    THEN fi
    ELSE [fi EXCEPT !.reads =
            Append(@, [table_name |-> tbl, field_name |-> field])]

push_read(fi, tbl, field) ==
    IF \E i \in 1..Len(fi.reads) :
          fi.reads[i].table_name = tbl /\ fi.reads[i].field_name = field
    THEN fi
    ELSE [fi EXCEPT !.reads =
            Append(@, [table_name |-> tbl, field_name |-> field])]

\* index of the first entry of globals named name, or -1
GlobalSlotOf(globals, name) ==
    IF \E i \in 1..Len(globals) : globals[i].name = name
    THEN (CHOOSE i \in 1..Len(globals) :
             /\ globals[i].name = name
             /\ \A j \in 1..(i - 1) : globals[j].name # name) - 1
    ELSE -1

\* upsert_global in which the last write decides is_function
upsert_global_LastWins(globals, name, is_fn, function_index) ==
    LET slot == GlobalSlotOf(globals, name)
    IN  IF slot >= 0
        THEN [globals EXCEPT ![slot + 1] =
                [@ EXCEPT !.is_function = is_fn,
                          !.function_index =
                              IF function_index >= 0 THEN function_index
                              ELSE @]]
        ELSE Append(globals, [name |-> name, is_function |-> is_fn,
                              function_index |-> function_index])

\* upsert_global storing function_index without the test function_index >= 0
upsert_global_ResetsIndex(globals, name, is_fn, function_index) ==
    LET slot == GlobalSlotOf(globals, name)
    IN  IF slot >= 0
        THEN [globals EXCEPT ![slot + 1] =
                [@ EXCEPT !.is_function = IF is_fn THEN TRUE ELSE @,
                          !.function_index = function_index]]
        ELSE Append(globals, [name |-> name, is_function |-> is_fn,
                              function_index |-> function_index])

upsert_global(globals, name, is_fn, function_index) ==
    LET slot == GlobalSlotOf(globals, name)
    IN  IF slot >= 0
        THEN [globals EXCEPT ![slot + 1] =
                [@ EXCEPT !.is_function = IF is_fn THEN TRUE ELSE @,
                          !.function_index =
                              IF function_index >= 0 THEN function_index
                              ELSE @]]
        ELSE Append(globals, [name |-> name, is_function |-> is_fn,
                              function_index |-> function_index])

-----------------------------------------------------------------------------
(* Resolution of the callee of a CALL/TAILCALL *)

\* a callee name: "" (NULL), a key, or "<base>.<key>"
NoName == [base |-> NULL, key |-> NULL]
PlainName(key) == [base |-> NULL, key |-> key]
DottedName(base, key) == [base |-> base, key |-> key]

CalleeWindow == 32
BaseWindow == 16

\* the f->upvalues[upv].name lookup with its "?" default
UpvalueNameOr(f, upv, default) ==
    IF upv < sizeupvalues(f) /\ At(f.upvalues, upv) # NULL
    THEN At(f.upvalues, upv) ELSE default

RECURSIVE BaseNameScan(_, _, _, _)
\* the secondary scan for the GETTABUP that loaded the base register
BaseNameScan(f, j, limit2, src_reg) ==
    IF j < limit2 THEN "?"
    ELSE LET prev == At(f.code, j)
         IN  IF GET_OPCODE(prev) = "OP_GETTABUP" /\ GETARG_A(prev) = src_reg
             THEN LET cidx == GETARG_C(prev)
                  IN  IF cidx < sizek(f) /\ ttisstring(At(f.k, cidx))
                      THEN getstr(At(f.k, cidx)) ELSE "?"
             ELSE IF GETARG_A(prev) = src_reg THEN "?"
             ELSE BaseNameScan(f, j - 1, limit2, src_reg)

Unresolved == [kind |-> CALL_KIND_UNKNOWN, callee |-> NoName]

RECURSIVE CalleeScan(_, _, _, _)
CalleeScan(f, i, limit, callee_reg) ==
    IF i < limit THEN Unresolved
    ELSE LET ins == At(f.code, i)
             op == GET_OPCODE(ins)
             key_idx == GETARG_C(ins)
             keyok == key_idx < sizek(f) /\ ttisstring(At(f.k, key_idx))
             field == getstr(At(f.k, key_idx))
         IN  IF GETARG_A(ins) # callee_reg
             THEN CalleeScan(f, i - 1, limit, callee_reg)
             ELSE IF op = "OP_GETTABUP"
                  THEN IF ~keyok THEN Unresolved
                       ELSE IF GETARG_B(ins) = 0
                            THEN [kind |-> CALL_KIND_GLOBAL,
                                  callee |-> PlainName(field)]
                            ELSE [kind |-> CALL_KIND_FIELD,
                                  callee |-> DottedName(
                                     UpvalueNameOr(f, GETARG_B(ins), "?"),
                                     field)]
             ELSE IF op = "OP_GETFIELD"
                  THEN IF ~keyok THEN Unresolved
                       ELSE LET limit2 == IF i - BaseWindow < 0 THEN 0
                                          ELSE i - BaseWindow
                            IN  [kind |-> CALL_KIND_FIELD,
                                 callee |-> DottedName(
                                    BaseNameScan(f, i - 1, limit2,
                                                 GETARG_B(ins)),
                                    field)]
             ELSE IF op = "OP_SELF"
                  THEN IF ~keyok THEN Unresolved
                       ELSE [kind |-> CALL_KIND_METHOD,
                             callee |-> PlainName(field)]
             ELSE IF op \in {"OP_MOVE", "OP_GETUPVAL", "OP_CLOSURE"}
                  THEN [kind |-> CALL_KIND_LOCAL, callee |-> NoName]
             ELSE Unresolved

resolve_callee(f, call_pc, callee_reg) ==
    CalleeScan(f, call_pc - 1,
               IF call_pc - CalleeWindow < 0 THEN 0
               ELSE call_pc - CalleeWindow,
               callee_reg)

-----------------------------------------------------------------------------
(* Line of a call site *)

RECURSIVE AbsLineSearch(_, _, _, _, _)
\* the binary search over f->abslineinfo
AbsLineSearch(f, pc, lo, hi, best) ==
    IF lo > hi THEN best
    ELSE LET mid == (lo + hi) \div 2
         IN  IF At(f.abslineinfo, mid).pc <= pc
             THEN AbsLineSearch(f, pc, mid + 1, hi,
                                At(f.abslineinfo, mid).line)
             ELSE AbsLineSearch(f, pc, lo, mid - 1, best)

RECURSIVE DeltaLineSum(_, _, _)
\* f->linedefined plus lineinfo[0..pc], accumulated from index k upwards
DeltaLineSum(f, pc, k) ==
    IF k <= pc /\ k < sizecode(f)
    THEN At(f.lineinfo, k) + DeltaLineSum(f, pc, k + 1)
    ELSE 0

\* CallLine whose search leaves out the last checkpoint of the table
CallLine_SkipsLast(f, pc) ==
    IF Len(f.abslineinfo) > 0
    THEN AbsLineSearch(f, pc, 0, Len(f.abslineinfo) - 2, 0)
    ELSE IF f.lineinfo # <<>> /\ pc < sizecode(f)
         THEN f.linedefined + DeltaLineSum(f, pc, 0)
         ELSE 0

CallLine(f, pc) ==
    IF Len(f.abslineinfo) > 0
    THEN AbsLineSearch(f, pc, 0, Len(f.abslineinfo) - 1, 0)
    ELSE IF f.lineinfo # <<>> /\ pc < sizecode(f)
         THEN f.linedefined + DeltaLineSum(f, pc, 0)
         ELSE 0


-----------------------------------------------------------------------------
(* analyze_function: activation records and the steps of the walk *)

RootProto == 1

Top == stack[Len(stack)]
CurProto == tree[Top.f]
CurFi == At(report.functions, Top.my_index)
CurIns == At(CurProto.code, Top.pc)

Scanning == phase = "walk" /\ stack # <<>> /\ Top.pc < sizecode(CurProto)

\* the record of f after push_function and the identity and signature part
\* the name recorded for parameter i (from 0) of f
ParamName(f, i) ==
    IF i < sizelocvars(f) /\ At(f.locvars, i) # NULL
    THEN At(f.locvars, i) ELSE "(?)"

\* the ConstantEntry recorded for the constant kv
ConstantEntryOf(kv) ==
    IF ttisstring(kv)
    THEN [kind |-> CONST_KIND_STRING, s_val |-> getstr(kv), i_val |-> 0]
    ELSE IF ttisinteger(kv)
    THEN [kind |-> CONST_KIND_INTEGER, s_val |-> NULL, i_val |-> kv.i]
    ELSE [kind |-> CONST_KIND_NULL, s_val |-> NULL, i_val |-> 0]

EnterRecord(f) ==
    [ZeroFunctionInfo EXCEPT
        !.source = IF f.source # NULL THEN f.source ELSE "?",
        !.line_defined = f.linedefined,
        !.last_line = f.lastlinedefined,
        !.param_count = f.numparams,
        !.is_vararg = f.is_vararg,
        !.param_names = [i \in 1..f.numparams |-> ParamName(f, i - 1)],
        !.is_method = f.numparams > 0 /\ ParamName(f, 0) = "self",
        !.upvalue_count = sizeupvalues(f),
        !.upvalue_names =
            [i \in 1..sizeupvalues(f) |->
                IF f.upvalues[i] # NULL THEN f.upvalues[i] ELSE "(?)"],
        !.constants = [i \in 1..sizek(f) |-> ConstantEntryOf(f.k[i])],
        !.return_kind = RETURN_KIND_UNKNOWN]

\* the capacities a list that starts at first_cap and doubles can have
Capacities(first_cap) == {first_cap * 2^e : e \in 0..MaxDoublings}

\* the push_* helpers call realloc when num has reached the capacity: at 0
\* and at every capacity
Grows(num, first_cap) == num = 0 \/ num \in Capacities(first_cap)

\* report->cap_functions when the list holds num records
cap_functions(num) ==
    IF num = 0 THEN 0
    ELSE CHOOSE c \in Capacities(8) :
            /\ c >= num
            /\ \A d \in Capacities(8) : d >= num => c <= d

\* the block a list owns, if the push of element number num (from 0) had
\* to obtain or move it
ListBlock(kind, index, num, first_cap) ==
    IF Grows(num, first_cap) THEN {Block(kind, index, -1)} ELSE {}

\* the blocks push_function and the identity, signature and constant part of
\* analyze_function obtain for the record number index of f
PrologueBlocks(f, index) ==
    ListBlock("functions", -1, index, 8)
    \cup {Block("source", index, -1)}
    \cup (IF f.numparams > 0
          THEN {Block("param_names", index, -1)}
               \cup {Block("param_names[j]", index, j) :
                        j \in 0..(f.numparams - 1)}
          ELSE {})
    \cup (IF sizeupvalues(f) > 0
          THEN {Block("upvalue_names", index, -1)}
               \cup {Block("upvalue_names[j]", index, j) :
                        j \in 0..(sizeupvalues(f) - 1)}
          ELSE {})
    \cup (IF sizek(f) > 0
          THEN {Block("constants", index, -1)}
               \cup {Block("constants[j].s_val", index, j) :
                        j \in {c \in 0..(sizek(f) - 1) :
                                  ttisstring(At(f.k, c))}}
          ELSE {})

\* free(blocks): releasing a block that is not live is a fault
Free(h, blocks) ==
    [live |-> h.live \ blocks,
     freed |-> h.freed \cup blocks,
     fault |-> IF h.fault # "none" \/ blocks \subseteq h.live THEN h.fault
               ELSE IF (blocks \ h.live) \cap h.freed # {}
                    THEN "double_free"
                    ELSE "invalid_free"]

\* the locals of analyze_function when the bytecode scan starts; fi_cap is
\* the capacity of report->functions when the pointer fi was taken
EnterFrame(id, index) ==
    [f |-> id, my_index |-> index, pc |-> 0, i |-> 0,
     last_newtable_pc |-> -1, last_newtable_arr |-> 0,
     last_newtable_hsh |-> 0, fi_cap |-> cap_functions(index + 1)]

SetTop(frame) == stack' = [stack EXCEPT ![Len(stack)] = frame]
NextPc == [Top EXCEPT !.pc = @ + 1]
SetFi(fi) ==
    report' = [report EXCEPT !.functions[Top.my_index + 1] = fi]

\* the walk obtains blocks without going through the pointer fi
Allocate(blocks) == heap' = [heap EXCEPT !.live = @ \cup blocks]

\* the walk reads or writes through the pointer fi of the frame and obtains
\* blocks: the pointer dangles when report->functions has moved since
UseFi(frame, blocks) ==
    heap' = [heap EXCEPT
               !.live = @ \cup blocks,
               !.fault = IF @ = "none"
                            /\ frame.fi_cap
                                 # cap_functions(Len(report.functions))
                         THEN "stale_record" ELSE @]

\* analyze_proto: create_report, then analyze_function on the main chunk up
\* to the start of its bytecode scan
AnalyzeProto ==
    /\ phase = "init"
    /\ phase' = "walk"
    /\ report' = [functions |-> <<EnterRecord(tree[RootProto])>>,
                  globals |-> <<>>]
    /\ stack' = <<EnterFrame(RootProto, 0)>>
    /\ Allocate({Block("report", -1, -1)}
                \cup PrologueBlocks(tree[RootProto], 0))
    /\ UNCHANGED <<tree, writes, probe, json>>

ScanNewtable ==
    /\ Scanning
    /\ GET_OPCODE(CurIns) = "OP_NEWTABLE"
    /\ \E arr \in decode_array_size(CurProto, Top.pc) :
       \E hsh \in decode_hash_size(GETARG_B(CurIns)) :
          SetTop([NextPc EXCEPT !.last_newtable_pc = Top.pc,
                                !.last_newtable_arr = arr,
                                !.last_newtable_hsh = hsh])
    /\ UNCHANGED <<tree, report, phase, writes, probe, heap, json>>

\* the sizes table_info can get at a return site classified TABLE
TableSizes(f, pc, frame) ==
    LET nt_pc == find_newtable_for_reg(f, pc, GETARG_A(At(f.code, pc)))
    IN  IF nt_pc >= 0
        THEN [array_size : decode_array_size(f, nt_pc),
              hash_size : decode_hash_size(GETARG_B(At(f.code, nt_pc)))]
        ELSE {[array_size |-> frame.last_newtable_arr,
               hash_size |-> frame.last_newtable_hsh]}

ScanReturn ==
    /\ Scanning
    /\ GET_OPCODE(CurIns) \in {"OP_RETURN", "OP_RETURN0", "OP_RETURN1"}
    /\ LET kind == classify_return(CurProto, Top.pc)
           merged == [CurFi EXCEPT
                        !.return_kind =
                            MergeReturnKind(@, CurFi.had_real_return, kind),
                        !.had_real_return = MergeHadRealReturn(@, kind)]
       IN  IF kind = RETURN_KIND_TABLE
           THEN \E sizes \in TableSizes(CurProto, Top.pc, Top) :
                \E est \in EstimatedBytes16(sizes.array_size,
                                            sizes.hash_size) :
                   SetFi([merged EXCEPT
                            !.table_info.array_size = sizes.array_size,
                            !.table_info.hash_size = sizes.hash_size,
                            !.table_info.estimated_bytes16 = est])
           ELSE SetFi(merged)
    /\ UseFi(Top, {})
    /\ SetTop(NextPc)
    /\ UNCHANGED <<tree, phase, writes, probe, json>>

ScanClosure ==
    /\ Scanning
    /\ GET_OPCODE(CurIns) = "OP_CLOSURE"
    /\ LET bx == GETARG_Bx(CurIns)
           child == tree[At(CurProto.p, bx)]
       IN  IF bx < sizep(CurProto) /\ sizeupvalues(child) > 0
           THEN /\ SetFi([push_closure(CurFi, child.linedefined,
                                       sizeupvalues(child))
                            EXCEPT !.table_info.contains_closures = TRUE])
                /\ UseFi(Top, ListBlock("closures", Top.my_index,
                                        Len(CurFi.closures), 4))
           ELSE UNCHANGED <<report, heap>>
    /\ SetTop(NextPc)
    /\ UNCHANGED <<tree, phase, writes, probe, json>>

GlobalWindow == 16

RECURSIVE ClosureValueScan(_, _, _, _)
\* the scan of OP_SETTABUP for the closure stored in val_reg: the result is
\* is_fn and child_proto
ClosureValueScan(f, j, limit2, val_reg) ==
    IF j < limit2 THEN [is_fn |-> FALSE, child_proto |-> NoProto]
    ELSE LET prev == At(f.code, j)
         IN  IF GET_OPCODE(prev) = "OP_CLOSURE" /\ GETARG_A(prev) = val_reg
             THEN [is_fn |-> TRUE,
                   child_proto |-> IF GETARG_Bx(prev) < sizep(f)
                                   THEN At(f.p, GETARG_Bx(prev))
                                   ELSE NoProto]
             ELSE IF GETARG_A(prev) = val_reg
                  THEN [is_fn |-> FALSE, child_proto |-> NoProto]
             ELSE ClosureValueScan(f, j - 1, limit2, val_reg)

\* fi->pending_proto after a new global took slot global_slot
StashPending(fi, global_slot, num_globals, child_proto) ==
    [fi EXCEPT
       !.pending_proto =
           [g \in 1..num_globals |->
               IF g - 1 < fi.num_pending THEN fi.pending_proto[g]
               ELSE IF g - 1 < global_slot THEN NoProto
               ELSE child_proto],
       !.num_pending = num_globals]

ScanSettabup ==
    /\ Scanning
    /\ GET_OPCODE(CurIns) = "OP_SETTABUP"
    /\ LET key_idx == GETARG_B(CurIns)
           val_reg == GETARG_C(CurIns)
           k_flag == GETARG_k(CurIns)
           name == getstr(At(CurProto.k, key_idx))
           limit2 == IF Top.pc - GlobalWindow < 0 THEN 0
                     ELSE Top.pc - GlobalWindow
           found == IF k_flag = 0
                    THEN ClosureValueScan(CurProto, Top.pc - 1, limit2,
                                          val_reg)
                    ELSE [is_fn |-> FALSE, child_proto |-> NoProto]
           global_slot == Len(report.globals)
           globals2 == upsert_global(report.globals, name, found.is_fn, -1)
       IN  IF GETARG_A(CurIns) # 0 \/ key_idx >= sizek(CurProto)
              \/ ~ttisstring(At(CurProto.k, key_idx))
           THEN UNCHANGED <<report, writes, heap>>
           ELSE /\ LET grown ==
                         IF Len(globals2) > global_slot
                         THEN ListBlock("globals", -1, global_slot, 8)
                              \cup {Block("globals[i].name", -1,
                                          global_slot)}
                         ELSE {}
                   IN  IF found.child_proto # NoProto
                          /\ Len(globals2) > global_slot
                       THEN UseFi(Top, grown
                                \cup {Block("pending_proto", Top.my_index,
                                            -1)})
                       ELSE Allocate(grown)
                /\ report' =
                     [functions |->
                        IF found.child_proto # NoProto
                           /\ Len(globals2) > global_slot
                        THEN [report.functions EXCEPT ![Top.my_index + 1] =
                                 StashPending(@, global_slot, Len(globals2),
                                              found.child_proto)]
                        ELSE report.functions,
                      globals |-> globals2]
                /\ writes' = Append(writes, [name |-> name,
                                             is_fn |-> found.is_fn])
    /\ SetTop(NextPc)
    /\ UNCHANGED <<tree, phase, probe, json>>

ScanVararg ==
    /\ Scanning
    /\ GET_OPCODE(CurIns) = "OP_VARARG"
    /\ SetFi([CurFi EXCEPT !.is_vararg_used = TRUE])
    /\ UseFi(Top, {})
    /\ SetTop(NextPc)
    /\ UNCHANGED <<tree, phase, writes, probe, json>>

\* the blocks push_read obtains: none when the pair is already recorded
ReadBlocks(fi, index, tbl, field) ==
    IF push_read(fi, tbl, field) = fi THEN {}
    ELSE ListBlock("reads", index, Len(fi.reads), 8)
         \cup {Block("reads[j].table_name", index, Len(fi.reads)),
               Block("reads[j].field_name", index, Len(fi.reads))}

ScanGettabup ==
    /\ Scanning
    /\ GET_OPCODE(CurIns) = "OP_GETTABUP"
    /\ LET upv == GETARG_B(CurIns)
           key_idx == GETARG_C(CurIns)
           tbl == IF upv # 0 THEN UpvalueNameOr(CurProto, upv, "_ENV")
                  ELSE "_ENV"
       IN  IF key_idx < sizek(CurProto)
              /\ ttisstring(At(CurProto.k, key_idx))
           THEN /\ SetFi(push_read(CurFi, tbl,
                                   getstr(At(CurProto.k, key_idx))))
                /\ UseFi(Top, ReadBlocks(CurFi, Top.my_index, tbl,
                                         getstr(At(CurProto.k, key_idx))))
           ELSE UNCHANGED <<report, heap>>
    /\ SetTop(NextPc)
    /\ UNCHANGED <<tree, phase, writes, probe, json>>

ScanGetfield ==
    /\ Scanning
    /\ GET_OPCODE(CurIns) = "OP_GETFIELD"
    /\ LET key_idx == GETARG_C(CurIns)
       IN  IF key_idx < sizek(CurProto)
              /\ ttisstring(At(CurProto.k, key_idx))
           THEN /\ SetFi(push_read(CurFi, "?",
                                   getstr(At(CurProto.k, key_idx))))
                /\ UseFi(Top, ReadBlocks(CurFi, Top.my_index, "?",
                                         getstr(At(CurProto.k, key_idx))))
           ELSE UNCHANGED <<report, heap>>
    /\ SetTop(NextPc)
    /\ UNCHANGED <<tree, phase, writes, probe, json>>

ScanCall ==
    /\ Scanning
    /\ GET_OPCODE(CurIns) \in {"OP_CALL", "OP_TAILCALL"}
    /\ LET b == GETARG_B(CurIns)
           resolved == resolve_callee(CurProto, Top.pc, GETARG_A(CurIns))
           cs == [line |-> CallLine(CurProto, Top.pc),
                  kind |-> resolved.kind,
                  callee |-> resolved.callee,
                  arg_count |-> IF b = 0 THEN -1 ELSE b - 1,
                  is_tail |-> GET_OPCODE(CurIns) = "OP_TAILCALL"]
       IN  /\ SetFi([CurFi EXCEPT !.call_sites = Append(@, cs)])
           /\ UseFi(Top, ListBlock("call_sites", Top.my_index,
                                   Len(CurFi.call_sites), 8)
                         \cup (IF resolved.callee # NoName
                               THEN {Block("call_sites[j].callee",
                                           Top.my_index,
                                           Len(CurFi.call_sites))}
                               ELSE {}))
    /\ SetTop(NextPc)
    /\ UNCHANGED <<tree, phase, writes, probe, json>>

ScannedOps ==
    {"OP_NEWTABLE", "OP_RETURN", "OP_RETURN0", "OP_RETURN1", "OP_CLOSURE",
     "OP_SETTABUP", "OP_VARARG", "OP_GETTABUP", "OP_GETFIELD", "OP_CALL",
     "OP_TAILCALL"}

\* OP_2Q and the default case: nothing is recorded
ScanOther ==
    /\ Scanning
    /\ GET_OPCODE(CurIns) \notin ScannedOps
    /\ SetTop(NextPc)
    /\ UNCHANGED <<tree, report, phase, writes, probe, heap, json>>

\* one iteration of the loop over f->p: the child's index is appended to the
\* parent's list and analyze_function starts on the child
RecurseChild ==
    /\ phase = "walk" /\ stack # <<>>
    /\ Top.pc = sizecode(CurProto)
    /\ Top.i < sizep(CurProto)
    /\ LET child_index == Len(report.functions)
           child == At(CurProto.p, Top.i)
       IN  /\ report' =
                [report EXCEPT !.functions =
                    Append([@ EXCEPT ![Top.my_index + 1] =
                               push_child_index(@, child_index)],
                           EnterRecord(tree[child]))]
           /\ stack' = Append(stack, EnterFrame(child, child_index))
           /\ Allocate(ListBlock("child_proto_indices", Top.my_index,
                                 Len(CurFi.child_proto_indices), 4)
                       \cup PrologueBlocks(tree[child], child_index))
    /\ UNCHANGED <<tree, phase, writes, probe, json>>

\* index of the first record whose line_defined is target_line, or -1
FirstRecordAtLine(functions, target_line) ==
    IF \E k \in 1..Len(functions) : functions[k].line_defined = target_line
    THEN (CHOOSE k \in 1..Len(functions) :
             /\ functions[k].line_defined = target_line
             /\ \A j \in 1..(k - 1) :
                    functions[j].line_defined # target_line) - 1
    ELSE -1

\* report->globals after the resolution loop of the record fi
ResolveGlobals(fi, functions, globals) ==
    [g \in 1..Len(globals) |->
        IF g - 1 < fi.num_pending /\ fi.pending_proto[g] # NoProto
           /\ FirstRecordAtLine(functions,
                 tree[fi.pending_proto[g]].linedefined) >= 0
        THEN [globals[g] EXCEPT !.function_index =
                FirstRecordAtLine(functions,
                    tree[fi.pending_proto[g]].linedefined)]
        ELSE globals[g]]

\* analyze_function without the statement that fetches fi again
RefetchFi_Skipped(frame) == frame

\* the frame after the statement that fetches fi again from
\* report->functions[my_index]
RefetchFi(frame) ==
    [frame EXCEPT !.fi_cap = cap_functions(Len(report.functions))]

\* the end of analyze_function: the pending bindings of this record are
\* resolved and released, and control returns to the caller's loop over f->p
ResolvePending ==
    /\ phase = "walk" /\ stack # <<>>
    /\ Top.pc = sizecode(CurProto)
    /\ Top.i = sizep(CurProto)
    /\ heap' = LET used == [heap EXCEPT
                              !.fault =
                                 IF @ = "none"
                                    /\ RefetchFi(Top).fi_cap
                                         # cap_functions(
                                               Len(report.functions))
                                 THEN "stale_record" ELSE @]
               IN  IF CurFi.num_pending > 0
                   THEN Free(used, {Block("pending_proto", Top.my_index,
                                          -1)})
                   ELSE used
    /\ report' =
         IF CurFi.num_pending > 0
         THEN [functions |->
                 [report.functions EXCEPT ![Top.my_index + 1] =
                     [@ EXCEPT !.pending_proto = <<>>, !.num_pending = 0]],
               globals |-> ResolveGlobals(CurFi, report.functions,
                                          report.globals)]
         ELSE report
    /\ IF Len(stack) = 1
       THEN /\ stack' = <<>>
            /\ phase' = "done"
       ELSE /\ stack' = [SubSeq(stack, 1, Len(stack) - 1)
                           EXCEPT ![Len(stack) - 1].i = @ + 1]
            /\ phase' = phase
    /\ UNCHANGED <<tree, writes, probe, json>>

Next ==
    \/ AnalyzeProto
    \/ ScanNewtable
    \/ ScanReturn
    \/ ScanClosure
    \/ ScanSettabup
    \/ ScanVararg
    \/ ScanGettabup
    \/ ScanGetfield
    \/ ScanCall
    \/ ScanOther
    \/ RecurseChild
    \/ ResolvePending


-----------------------------------------------------------------------------
(* Inputs of the scan of one function.  The function under analysis is the *)
(* main prototype; its code is a sequence of statements as the compiler    *)
(* emits them.  It has three nested functions: the first captures an       *)
(* upvalue, the other two capture nothing.                                 *)

RECURSIVE Flatten(_)
Flatten(ss) == IF ss = <<>> THEN <<>> ELSE Head(ss) \o Flatten(Tail(ss))

StmtSeqs(pool, max) == UNION {[1..n -> pool] : n \in 0..max}

LeafProto(line, upvalues) ==
    [code |-> <<iABC("OP_RETURN0", 0, 1, 0, 0)>>, k |-> <<>>, p |-> <<>>,
     upvalues |-> upvalues, numparams |-> 0, is_vararg |-> FALSE,
     linedefined |-> line, abslineinfo |-> <<>>, lineinfo |-> <<>>,
     lastlinedefined |-> line, source |-> "@chunk", locvars |-> <<>>]

ScanTree(code) ==
    <<[code |-> code, k |-> <<KStr("x"), KInt, KStr("y")>>,
       p |-> <<2, 3, 4>>, upvalues |-> <<"_ENV", "up">>, numparams |-> 2,
       is_vararg |-> FALSE, linedefined |-> 1, abslineinfo |-> <<>>,
       lineinfo |-> <<>>, lastlinedefined |-> 5, source |-> "@chunk",
       locvars |-> <<"a", "b", "t">>],
      LeafProto(2, <<"n">>),
      LeafProto(3, <<>>),
      LeafProto(4, <<>>)>>

Start ==
    /\ report = [functions |-> <<>>, globals |-> <<>>]
    /\ stack = <<>>
    /\ phase = "init"
    /\ writes = <<>>
    /\ probe = NoProbe
    /\ heap = EmptyHeap
    /\ json = <<>>

\* statements whose compiled form is named in the claims
StmtReturn == <<iABC("OP_RETURN0", 2, 1, 0, 0)>>
StmtReturnSum ==
    <<iABC("OP_ADD", 2, 0, 1, 0), iABC("OP_MMBIN", 0, 1, 6, 0),
      iABC("OP_RETURN1", 2, 2, 0, 0)>>
StmtReturnTable ==
    <<iABC("OP_NEWTABLE", 2, 1, 3, 0), iAx("OP_EXTRAARG", 0),
      iABC("OP_SETFIELD", 2, 0, 3, 0), iABC("OP_RETURN1", 2, 2, 0, 0)>>
StmtReturnCall ==
    <<iABC("OP_CALL", 2, 1, 2, 0), iABC("OP_RETURN1", 2, 2, 0, 0)>>
StmtReturnCallB2 ==
    <<iABC("OP_CALL", 2, 1, 2, 0), iABC("OP_RETURN", 2, 2, 0, 0)>>
StmtReturnTailCall ==
    <<iABC("OP_VARARG", 3, 0, 0, 0), iABC("OP_TAILCALL", 2, 0, 0, 0),
      iABC("OP_RETURN", 2, 0, 0, 0)>>
StmtSetGlobalFunction ==
    <<iABx("OP_CLOSURE", 2, 0), iABC("OP_SETTABUP", 0, 0, 2, 0)>>

ReturnStmts ==
    { StmtReturn,                                        \* return
      <<iABC("OP_RETURN", 2, 1, 0, 0)>>,                 \* return (as RETURN)
      StmtReturnSum,                                     \* return a + b
      StmtReturnTable,                                   \* return {.., x = v}
      StmtReturnCall,                                    \* return (f())
      StmtReturnCallB2,                                  \* same, as RETURN
      StmtReturnTailCall,                                \* return f(...)
      <<iABC("OP_GETTABUP", 2, 0, 0, 0), iABC("OP_GETFIELD", 2, 2, 2, 0),
        iABC("OP_RETURN1", 2, 2, 0, 0)>>,                \* return x.y
      <<iABx("OP_LOADI", 2, 1),
        iABC("OP_RETURN1", 2, 2, 0, 0)>>,                \* return 1
      StmtSetGlobalFunction }                            \* x = function .. end

Init ==
    /\ \E ss \in StmtSeqs(ReturnStmts, MaxStmts) : tree = ScanTree(Flatten(ss))
    /\ Start

Spec == Init /\ [][Next]_vars

-----------------------------------------------------------------------------
(* Vocabulary of the claims about return sites *)

ReturnOps == {"OP_RETURN", "OP_RETURN0", "OP_RETURN1"}
StrongKinds ==
    {RETURN_KIND_TABLE, RETURN_KIND_CALL, RETURN_KIND_UPVALUE,
     RETURN_KIND_CONSTANT, RETURN_KIND_MULTI}

\* the return instructions of f among its first n instructions
ReturnSites(f, n) ==
    {q \in 0..(n - 1) : GET_OPCODE(At(f.code, q)) \in ReturnOps}

\* the sites among them that were classified with a strong shape
StrongSites(f, n) ==
    {q \in ReturnSites(f, n) : classify_return(f, q) \in StrongKinds}

\* a return instruction that hands back at least one value
ValueReturn(ins) ==
    \/ GET_OPCODE(ins) = "OP_RETURN1"
    \/ GET_OPCODE(ins) = "OP_RETURN" /\ GETARG_B(ins) # 1

ValueSites(f, n) == {q \in ReturnSites(f, n) : ValueReturn(At(f.code, q))}

\* the activations of analyze_function and the record each one fills
Frames == {stack[d] : d \in 1..Len(stack)}
RecordOf(fr) == At(report.functions, fr.my_index)
ScanDone(fr) == fr.pc = sizecode(tree[fr.f])


-----------------------------------------------------------------------------
(* Claims about the merged return kind *)

\* the compiled body of  function f(a, b) return a + b end
SumFunctionCode == StmtReturnSum \o StmtReturn

\* C1: for the function f(a, b) that returns a + b (ADD into the returned
\* register, RETURN1, then the compiler's trailing RETURN0) the record has
\* param_count = 2, is_vararg = false and return_kind = unknown (0): the
\* trailing no-value return does not turn the verdict into void.
C1_SumReturnsUnknown ==
    \A fr \in Frames :
        (ScanDone(fr) /\ tree[fr.f].code = SumFunctionCode) =>
            /\ RecordOf(fr).param_count = 2
            /\ RecordOf(fr).is_vararg = FALSE
            /\ RecordOf(fr).return_kind = RETURN_KIND_UNKNOWN

\* two scanned return sites of fr were classified with different strong shapes
TwoStrongShapes(fr) ==
    \E q1, q2 \in StrongSites(tree[fr.f], fr.pc) :
        classify_return(tree[fr.f], q1) # classify_return(tree[fr.f], q2)

\* C2: as soon as two scanned return sites of a function carry different
\* strong shapes, in either order and whatever void/unknown sites lie between
\* them, the merged return_kind is mixed (7); and a record whose return_kind
\* is mixed keeps it in every later step.
C2_TwoStrongShapesMixed ==
    /\ [](\A fr \in Frames :
            TwoStrongShapes(fr) =>
                RecordOf(fr).return_kind = RETURN_KIND_MIXED)
    /\ [][\A n \in 1..Len(report.functions) :
            report.functions[n].return_kind = RETURN_KIND_MIXED =>
                report'.functions[n].return_kind = RETURN_KIND_MIXED]_vars

\* a mixed verdict that has met a strong site, a weak site, a different
\* strong site and a further weak site, in this order
C2_Witness ==
    \E fr \in Frames :
        /\ RecordOf(fr).return_kind = RETURN_KIND_MIXED
        /\ \E q1, q2, q3, q4 \in ReturnSites(tree[fr.f], fr.pc) :
              /\ q1 < q2 /\ q2 < q3 /\ q3 < q4
              /\ classify_return(tree[fr.f], q1) \in StrongKinds
              /\ classify_return(tree[fr.f], q2) \notin StrongKinds
              /\ classify_return(tree[fr.f], q3) \in StrongKinds
              /\ classify_return(tree[fr.f], q3)
                     # classify_return(tree[fr.f], q1)
              /\ classify_return(tree[fr.f], q4) \notin StrongKinds

\* the step that scans a return instruction of the innermost activation
ReturnStep == Scanning /\ GET_OPCODE(CurIns) \in ReturnOps
TopKindAfter == At(report'.functions, Top.my_index).return_kind

\* C3: a return site classified void or unknown leaves a strong or mixed
\* return_kind unchanged, and return_kind becomes void only at a site before
\* which no strong site of that function was scanned.
C3_WeakSiteKeepsStrong ==
    [][ReturnStep =>
          /\ (/\ classify_return(CurProto, Top.pc) \notin StrongKinds
              /\ CurFi.return_kind \in StrongKinds \cup {RETURN_KIND_MIXED})
                 => TopKindAfter = CurFi.return_kind
          /\ (/\ TopKindAfter = RETURN_KIND_VOID
              /\ CurFi.return_kind # RETURN_KIND_VOID)
                 => StrongSites(CurProto, Top.pc) = {}]_vars

\* a void site has just been scanned after a strong one, and the strong
\* verdict is still there
C3_Witness ==
    \E fr \in Frames :
        /\ fr.pc > 0
        /\ GET_OPCODE(At(tree[fr.f].code, fr.pc - 1)) \in ReturnOps
        /\ classify_return(tree[fr.f], fr.pc - 1) = RETURN_KIND_VOID
        /\ StrongSites(tree[fr.f], fr.pc) # {}
        /\ RecordOf(fr).return_kind \in StrongKinds

\* C4: return_kind is table, call, upvalue, constant, multi or mixed only if
\* a scanned return site of the function was classified with a strong shape;
\* a function without any return instruction is void or unknown.
C4_StrongNeedsStrongSite ==
    \A fr \in Frames :
        /\ RecordOf(fr).return_kind \in StrongKinds \cup {RETURN_KIND_MIXED}
              => StrongSites(tree[fr.f], fr.pc) # {}
        /\ ReturnSites(tree[fr.f], fr.pc) = {}
              => RecordOf(fr).return_kind
                     \in {RETURN_KIND_UNKNOWN, RETURN_KIND_VOID}

\* a function whose whole code was scanned and holds no return instruction
C4_Witness ==
    \E fr \in Frames :
        /\ ScanDone(fr) /\ fr.pc > 0
        /\ ReturnSites(tree[fr.f], fr.pc) = {}
        /\ RecordOf(fr).return_kind = RETURN_KIND_UNKNOWN

\* the single value-returning site q of f returns a call result
ReturnsCallResult(f, q) ==
    LET ret == At(f.code, q)
        prev == At(f.code, q - 1)
    IN  /\ q > 0
        /\ GET_OPCODE(prev) \in {"OP_CALL", "OP_TAILCALL"}
        /\ GETARG_A(prev) = GETARG_A(ret)
        /\ \/ GET_OPCODE(ret) = "OP_RETURN1"
           \/ GET_OPCODE(ret) = "OP_RETURN" /\ GETARG_B(ret) = 2
           \/ /\ GET_OPCODE(ret) = "OP_RETURN" /\ GETARG_B(ret) = 0
              /\ GET_OPCODE(prev) = "OP_TAILCALL"

\* C8: a function whose only value-returning return site returns the result
\* of a call (encoded as RETURN1, as RETURN with B = 2, or as the variable
\* count RETURN after a tail call) has the merged return_kind call (3).
C8_CallResultIsCall ==
    \A fr \in Frames :
        (/\ ScanDone(fr)
         /\ \E q \in ValueSites(tree[fr.f], fr.pc) :
               /\ ValueSites(tree[fr.f], fr.pc) = {q}
               /\ ReturnsCallResult(tree[fr.f], q))
            => RecordOf(fr).return_kind = RETURN_KIND_CALL


-----------------------------------------------------------------------------
(* Inputs for the table and closure records of one function *)

StmtLocalTable == <<iABC("OP_NEWTABLE", 3, 2, 0, 0), iAx("OP_EXTRAARG", 0)>>
\* a table with 2^28 array slots: the EXTRAARG operand is 2^20
StmtLocalBigTable ==
    <<iABC("OP_NEWTABLE", 2, 0, 0, 1), iAx("OP_EXTRAARG", 1048576)>>
StmtReturnLocal == <<iABC("OP_RETURN1", 2, 2, 0, 0)>>
StmtReturnLocalB2 == <<iABC("OP_RETURN", 2, 2, 0, 0)>>
StmtReturnClosureTable ==
    <<iABC("OP_NEWTABLE", 2, 2, 0, 0), iAx("OP_EXTRAARG", 0),
      iABx("OP_CLOSURE", 3, 1), iABC("OP_SETFIELD", 2, 0, 3, 0),
      iABx("OP_CLOSURE", 3, 2), iABC("OP_SETFIELD", 2, 2, 3, 0),
      iABC("OP_RETURN1", 2, 2, 0, 0)>>
StmtPrint ==
    <<iABC("OP_GETTABUP", 3, 0, 0, 0), iABC("OP_GETTABUP", 4, 0, 0, 0),
      iABC("OP_GETFIELD", 4, 4, 2, 0), iABC("OP_VARARG", 5, 0, 0, 0),
      iABC("OP_CALL", 3, 0, 1, 0)>>

TableStmts ==
    { StmtReturn,                  \* return
      StmtReturnTable,             \* return {.., x = v}
      StmtLocalTable,              \* local u = {..}
      StmtLocalBigTable,           \* local t = {2^28 items}
      StmtReturnLocal,             \* return t
      StmtReturnLocalB2,           \* return t (as RETURN)
      StmtReturnCall,              \* return (f())
      StmtReturnClosureTable,      \* return {x = function .. end, y = ..}
      StmtPrint,                   \* x(x.y, ...)
      StmtSetGlobalFunction }      \* x = function .. end

InitTables ==
    /\ \E ss \in StmtSeqs(TableStmts, MaxTableStmts) :
          tree = ScanTree(Flatten(ss))
    /\ Start

SpecTables == InitTables /\ [][Next]_vars

-----------------------------------------------------------------------------
(* Claims about table_info and closures *)

\* i is a NEWTABLE into the register returned at q, and between i and q the
\* register is only the table operand of store instructions
FreshTableFor(f, i, q) ==
    LET reg == GETARG_A(At(f.code, q))
    IN  /\ i < q
        /\ GET_OPCODE(At(f.code, i)) = "OP_NEWTABLE"
        /\ GETARG_A(At(f.code, i)) = reg
        /\ \A j \in (i + 1)..(q - 1) :
              GETARG_A(At(f.code, j)) = reg
                  => GET_OPCODE(At(f.code, j)) \in TableStoreOps

ReturnsFreshTable(f, q) == \E i \in 0..(q - 1) : FreshTableFor(f, i, q)

LastOf(S) == CHOOSE q \in S : \A r \in S : r <= q

\* C5: when every value-returning site scanned so far returns a freshly
\* constructed table, return_kind is table (2), array_size and hash_size are
\* the sizes of the NEWTABLE that fed the returned register, and
\* estimated_bytes = 32 + array_size * 16 + hash_size * 32 (here in units of
\* 16 bytes: 2 + array_size + 2 * hash_size).
C5_FreshTableSizes ==
    \A fr \in Frames :
        LET f == tree[fr.f]
            sites == ValueSites(f, fr.pc)
            info == RecordOf(fr).table_info
        IN  (sites # {} /\ \A q \in sites : ReturnsFreshTable(f, q)) =>
               /\ RecordOf(fr).return_kind = RETURN_KIND_TABLE
               /\ \E i \in 0..(LastOf(sites) - 1) :
                     /\ FreshTableFor(f, i, LastOf(sites))
                     /\ info.array_size \in decode_array_size(f, i)
                     /\ info.hash_size
                            \in decode_hash_size(GETARG_B(At(f.code, i)))
               /\ info.estimated_bytes16
                      = 2 + info.array_size + 2 * info.hash_size

\* C6: in the finished report the sizes of table_info are zero in every
\* record whose return_kind is not table (2).
C6_SizesOnlyForTable ==
    phase = "done" =>
        \A n \in 1..Len(report.functions) :
            report.functions[n].return_kind # RETURN_KIND_TABLE =>
                /\ report.functions[n].table_info.array_size = 0
                /\ report.functions[n].table_info.hash_size = 0
                /\ report.functions[n].table_info.estimated_bytes16 = 0

\* the compiled body of a function returning a table literal with two
\* function-valued fields
ClosureTableCode == StmtReturnClosureTable \o StmtReturn

\* the closure constructions among the first n instructions of f
ClosureSites(f, n) ==
    {q \in 0..(n - 1) : GET_OPCODE(At(f.code, q)) = "OP_CLOSURE"}

\* C7: a function returning a table literal with two function-valued fields
\* has contains_closures = true and two entries in closures, and
\* contains_closures is true as soon as a closure construction was scanned.
C7_ClosuresRecorded ==
    \A fr \in Frames :
        /\ (ScanDone(fr) /\ tree[fr.f].code = ClosureTableCode) =>
               /\ RecordOf(fr).table_info.contains_closures
               /\ Len(RecordOf(fr).closures) = 2
        /\ ClosureSites(tree[fr.f], fr.pc) # {} =>
               RecordOf(fr).table_info.contains_closures


-----------------------------------------------------------------------------
(* Inputs of the walk: prototype trees.  Prototype 1 is the main chunk; the *)
(* parent of every other prototype has a smaller number, and f->p lists the *)
(* children in increasing order, so the order of the walk differs from the  *)
(* numbering as soon as a first child has a child of its own.  Prototype i  *)
(* is defined on line i - 1, which identifies it in the report.             *)

Parents(n) == {par \in [2..n -> 1..n] : \A j \in 2..n : par[j] < j}

ChildrenOf(par, n, i) ==
    SelectSeq([j \in 1..n |-> j], LAMBDA j : j > 1 /\ par[j] = i)

BodySetNumber ==                                        \* x = 1
    <<iABC("OP_SETTABUP", 0, 0, 1, 1), iABC("OP_RETURN0", 0, 1, 0, 0)>>
BodySetFunction ==                                      \* x = function .. end
    <<iABx("OP_CLOSURE", 0, 0), iABC("OP_SETTABUP", 0, 0, 0, 0),
      iABC("OP_RETURN0", 0, 1, 0, 0)>>
BodyCopyGlobal ==                                       \* X = x
    <<iABC("OP_GETTABUP", 0, 0, 0, 0), iABC("OP_SETTABUP", 0, 2, 0, 0),
      iABC("OP_RETURN0", 0, 1, 0, 0)>>
BodyCallField ==                                        \* local t = {}; t.X(...)
    <<iABC("OP_NEWTABLE", 0, 0, 0, 0), iAx("OP_EXTRAARG", 0),
      iABC("OP_GETFIELD", 1, 0, 2, 0), iABC("OP_VARARG", 2, 0, 0, 0),
      iABC("OP_CALL", 1, 0, 1, 0), iABC("OP_RETURN0", 0, 1, 0, 0)>>

WalkBodies == {BodySetNumber, BodySetFunction, BodyCopyGlobal, BodyCallField}

WalkProto(id, children, code) ==
    [code |-> code, k |-> <<KStr("x"), KInt, KStr("X")>>, p |-> children,
     upvalues |-> <<"_ENV">>, numparams |-> 0, is_vararg |-> id = RootProto,
     linedefined |-> id - 1, abslineinfo |-> <<>>, lineinfo |-> <<>>,
     lastlinedefined |-> id - 1, source |-> "@chunk", locvars |-> <<>>]

InitWalk ==
    /\ \E n \in 1..MaxProtos : \E par \in Parents(n) :
       \E body \in [1..n -> WalkBodies] :
          /\ \A i \in 1..n : body[i] = BodySetFunction
                                => ChildrenOf(par, n, i) # <<>>
          /\ tree = [i \in 1..n |->
                        WalkProto(i, ChildrenOf(par, n, i), body[i])]
    /\ Start

SpecWalk == InitWalk /\ [][Next]_vars

\* the walk is one sequential computation: it runs until it returns
FairSpecWalk == SpecWalk /\ WF_vars(Next)

-----------------------------------------------------------------------------
(* Claims about the order of the records and about globals *)

RECURSIVE Preorder(_), PreorderAll(_)
\* the prototypes of the subtree of id in depth-first preorder
Preorder(id) == <<id>> \o PreorderAll(tree[id].p)
PreorderAll(ps) ==
    IF ps = <<>> THEN <<>> ELSE Preorder(Head(ps)) \o PreorderAll(Tail(ps))

\* record number n (from 0) was created for prototype id
RecordFor(n, id) ==
    /\ n >= 0 /\ n < Len(report.functions)
    /\ At(report.functions, n).line_defined = tree[id].linedefined

\* the places (record, position) of the child lists that hold index m
ListedAt(m) ==
    {pl \in (0..(Len(report.functions) - 1)) \X (0..(Len(tree) - 1)) :
        /\ pl[2] < Len(At(report.functions, pl[1]).child_proto_indices)
        /\ At(At(report.functions, pl[1]).child_proto_indices, pl[2]) = m}

\* every index in a child list is greater than the index of its record
ChildIndicesLater ==
    \A n \in 0..(Len(report.functions) - 1) :
        LET list == At(report.functions, n).child_proto_indices
        IN  \A j \in 1..Len(list) : list[j] > n

\* the finished report: one record per prototype in preorder, child lists
\* that name the records of the direct children in child order, and every
\* record but the first in exactly one place of the child lists
PreorderReport ==
    /\ Len(report.functions) = Len(tree)
    /\ \A n \in 0..(Len(tree) - 1) :
          LET id == At(Preorder(RootProto), n)
              list == At(report.functions, n).child_proto_indices
          IN  /\ RecordFor(n, id)
              /\ Len(list) = sizep(tree[id])
              /\ \A j \in 0..(sizep(tree[id]) - 1) :
                    RecordFor(At(list, j), At(tree[id].p, j))
              /\ Cardinality(ListedAt(n)) = IF n = 0 THEN 0 ELSE 1

\* C9: the walk of a finite prototype tree terminates with one record per
\* prototype in depth-first preorder; record 0 is the main chunk, every
\* index in a child list is greater than the index of the record holding it
\* and is the index of the record of that direct child, in child order, and
\* every record other than record 0 is in exactly one child list.
C9_PreorderRecords ==
    /\ <>(phase = "done")
    /\ [](ChildIndicesLater)
    /\ [](phase = "done" => PreorderReport)

\* a finished walk whose record order differs from the numbering of the
\* prototypes: the first child of the main chunk has a child of its own
C9_Witness ==
    /\ phase = "done"
    /\ Len(tree) = 4
    /\ Preorder(RootProto) = <<1, 2, 4, 3>>
    /\ At(report.functions, 0).child_proto_indices = <<1, 3>>
    /\ At(report.functions, 1).child_proto_indices = <<2>>

\* the closure flags of the observed writes to name, in the order of the walk
WritesTo(name) ==
    LET ws == SelectSeq(writes, LAMBDA w : w.name = name)
    IN  [i \in 1..Len(ws) |-> ws[i].is_fn]

\* C10: globals never holds two entries with the same name, it holds an
\* entry for exactly the names written so far, and an entry's is_function is
\* true iff some observed write to its name assigned a closure, whatever the
\* order of the writes.
C10_GlobalsDeduplicated ==
    /\ \A i, j \in 1..Len(report.globals) :
          report.globals[i].name = report.globals[j].name => i = j
    /\ {report.globals[i].name : i \in 1..Len(report.globals)}
           = {writes[w].name : w \in 1..Len(writes)}
    /\ \A i \in 1..Len(report.globals) :
          report.globals[i].is_function
              <=> \E w \in 1..Len(writes) :
                     /\ writes[w].name = report.globals[i].name
                     /\ writes[w].is_fn

\* the name x written with a number, then a closure, then a number again,
\* and the name X written too
C10_Witness ==
    /\ phase = "done"
    /\ WritesTo("x") = <<FALSE, TRUE, FALSE>>
    /\ WritesTo("X") # <<>>
    /\ Len(report.globals) = 2
    /\ \E i \in 1..2 : /\ report.globals[i].name = "x"
                       /\ report.globals[i].is_function

-----------------------------------------------------------------------------
(* Inputs of the walk for the claims about globals.  A nested function may  *)
(* capture a local table t before, or instead of, the global environment,   *)
(* and the nested functions of a tree are either all declared on line 1 or  *)
(* each on its own line.                                                    *)

\* an upvalue list and a body compiled against it
ShapeSetNumber == [upvalues |-> <<"_ENV">>, code |-> BodySetNumber]
ShapeSetFunction == [upvalues |-> <<"_ENV">>, code |-> BodySetFunction]
ShapeMisc ==                                   \* local t = {}; x.X(...)
    [upvalues |-> <<"_ENV">>,
     code |-> <<iABC("OP_NEWTABLE", 0, 0, 0, 0), iAx("OP_EXTRAARG", 0),
                iABC("OP_GETTABUP", 1, 0, 0, 0),
                iABC("OP_GETFIELD", 1, 1, 2, 0),
                iABC("OP_VARARG", 2, 0, 0, 0), iABC("OP_CALL", 1, 0, 1, 0),
                iABC("OP_RETURN0", 0, 1, 0, 0)>>]
ShapeSetTableField ==                          \* t.x = 1
    [upvalues |-> <<"t">>, code |-> BodySetNumber]
ShapeSetFieldAndGlobal ==                      \* t.X = 1; x = 1
    [upvalues |-> <<"t", "_ENV">>,
     code |-> <<iABC("OP_SETTABUP", 0, 2, 1, 1),
                iABC("OP_SETTABUP", 1, 0, 1, 1),
                iABC("OP_RETURN0", 0, 1, 0, 0)>>]

RootShapes == {ShapeSetNumber, ShapeSetFunction, ShapeMisc}
NestedShapes ==
    {ShapeSetNumber, ShapeSetFunction, ShapeSetTableField,
     ShapeSetFieldAndGlobal}

GlobalsProto(id, children, shape, line) ==
    [code |-> shape.code, k |-> <<KStr("x"), KInt, KStr("X")>>,
     p |-> children, upvalues |-> shape.upvalues, numparams |-> 0,
     is_vararg |-> id = RootProto, linedefined |-> line,
     abslineinfo |-> <<>>, lineinfo |-> <<>>, lastlinedefined |-> line,
     source |-> "@chunk", locvars |-> <<>>]

InitGlobals ==
    /\ \E n \in 1..MaxProtos : \E par \in Parents(n) :
       \E shape \in [1..n -> RootShapes \cup NestedShapes] :
       \E same_line \in BOOLEAN :
          /\ shape[1] \in RootShapes
          /\ \A i \in 2..n : shape[i] \in NestedShapes
          /\ \A i \in 1..n : shape[i] = ShapeSetFunction
                                => ChildrenOf(par, n, i) # <<>>
          /\ n <= 2 => ~same_line
          /\ tree = [i \in 1..n |->
                        GlobalsProto(i, ChildrenOf(par, n, i), shape[i],
                                     IF i = RootProto THEN 0
                                     ELSE IF same_line THEN 1 ELSE i - 1)]
    /\ Start

SpecGlobals == InitGlobals /\ [][Next]_vars

-----------------------------------------------------------------------------
(* Claims about the resolution of globals *)

\* the index of the record the walk creates for prototype id
RecordIndexOf(id) ==
    (CHOOSE n \in 1..Len(Preorder(RootProto)) :
        Preorder(RootProto)[n] = id) - 1

\* the places (prototype, pc) of the table-upvalue stores with a constant
\* string key through the upvalue that is the global environment
EnvWrites ==
    {w \in (1..Len(tree)) \X (0..(MaxStmts + MaxProtos + 4)) :
        LET f == tree[w[1]]
        IN  /\ w[2] < sizecode(f)
            /\ GET_OPCODE(At(f.code, w[2])) = "OP_SETTABUP"
            /\ GETARG_A(At(f.code, w[2])) < sizeupvalues(f)
            /\ At(f.upvalues, GETARG_A(At(f.code, w[2]))) = "_ENV"
            /\ GETARG_B(At(f.code, w[2])) < sizek(f)
            /\ ttisstring(At(f.k, GETARG_B(At(f.code, w[2]))))}

WrittenName(w) ==
    getstr(At(tree[w[1]].k, GETARG_B(At(tree[w[1]].code, w[2]))))

\* the store at w assigns the closure built by the instruction before it
AssignsClosure(w) ==
    LET f == tree[w[1]]
    IN  /\ w[2] > 0
        /\ GETARG_k(At(f.code, w[2])) = 0
        /\ GET_OPCODE(At(f.code, w[2] - 1)) = "OP_CLOSURE"
        /\ GETARG_A(At(f.code, w[2] - 1)) = GETARG_C(At(f.code, w[2]))
        /\ GETARG_Bx(At(f.code, w[2] - 1)) < sizep(f)

\* the prototype of the closure assigned at w
AssignedProto(w) ==
    At(tree[w[1]].p, GETARG_Bx(At(tree[w[1]].code, w[2] - 1)))

\* w is scanned before v
WrittenBefore(w, v) ==
    \/ RecordIndexOf(w[1]) < RecordIndexOf(v[1])
    \/ w[1] = v[1] /\ w[2] < v[2]

\* the entry of globals named name has function_index idx
BoundTo(name, idx) ==
    \E g \in 1..Len(report.globals) :
        /\ report.globals[g].name = name
        /\ report.globals[g].is_function
        /\ report.globals[g].function_index = idx

\* C11: after the walk, a global name whose one assignment in the tree
\* assigns a closure has is_function = true and function_index = the index
\* of the record created for that closure's prototype, also when several
\* prototypes are declared on the same line.
C11_ClosureGlobalResolved ==
    phase = "done" =>
        \A w \in EnvWrites :
            (/\ AssignsClosure(w)
             /\ \A v \in EnvWrites : WrittenName(v) = WrittenName(w) => v = w)
                => BoundTo(WrittenName(w), RecordIndexOf(AssignedProto(w)))

\* C12: once a GlobalBinding holds a function_index >= 0, no step of the
\* walk (a later write to the name, a resolution step of any function)
\* changes it.
C12_FunctionIndexAssignedOnce ==
    [][\A g \in 1..Len(report.globals) :
          report.globals[g].function_index >= 0 =>
              /\ g <= Len(report'.globals)
              /\ report'.globals[g].name = report.globals[g].name
              /\ report'.globals[g].function_index
                     = report.globals[g].function_index]_vars

\* x was bound by a nested function, whose resolution step ran, and a
\* function scanned after that step wrote x again
C12_Witness ==
    /\ phase = "done"
    /\ WritesTo("x") = <<TRUE, FALSE>>
    /\ \E w, v \in EnvWrites :
          /\ WrittenName(w) = "x" /\ AssignsClosure(w)
          /\ WrittenName(v) = "x" /\ ~AssignsClosure(v)
          /\ w[1] # RootProto
          /\ RecordIndexOf(v[1]) > RecordIndexOf(AssignedProto(w))
          /\ BoundTo("x", RecordIndexOf(AssignedProto(w)))

\* C13: after the walk of a tree whose prototypes are declared on different
\* lines, the function_index of a name that is assigned several times is
\* the index of the record of the first assignment, in the order of the
\* walk, that assigns a resolvable closure.
C13_FirstClosureAssignmentWins ==
    (/\ phase = "done"
     /\ \A i, j \in 1..Len(tree) :
           tree[i].linedefined = tree[j].linedefined => i = j)
        => \A w \in EnvWrites :
              (/\ AssignsClosure(w)
               /\ \A v \in EnvWrites :
                     (WrittenName(v) = WrittenName(w) /\ AssignsClosure(v))
                         => v = w \/ WrittenBefore(w, v))
                  => BoundTo(WrittenName(w), RecordIndexOf(AssignedProto(w)))

\* C14: after the walk a name is in globals iff some function of the tree
\* writes it, with a constant string key, through the upvalue that is the
\* global environment.
C14_GlobalsAreEnvWrites ==
    phase = "done" =>
        {report.globals[g].name : g \in 1..Len(report.globals)}
            = {WrittenName(w) : w \in EnvWrites}

-----------------------------------------------------------------------------
(* Inputs for the reach of the backward scans: a function in which a value  *)
(* is produced in a register, a number of statements that do not touch the  *)
(* register follow, and the value is used.                                  *)

\* statements on registers 3 and 4: x.X(...); x = function .. end
GapCycle ==
    <<iABC("OP_GETTABUP", 3, 0, 0, 0), iABC("OP_GETFIELD", 3, 3, 2, 0),
      iABC("OP_VARARG", 4, 0, 0, 0), iABC("OP_CALL", 3, 0, 1, 0),
      iABx("OP_CLOSURE", 3, 0), iABC("OP_SETTABUP", 0, 0, 3, 0)>>

GapCode(n) == [j \in 1..n |-> GapCycle[((j - 1) % Len(GapCycle)) + 1]]

\* a producer and the use of what it produced
ProducerUses ==
    { [head |-> <<iABC("OP_NEWTABLE", 2, 0, 0, 0), iAx("OP_EXTRAARG", 0)>>,
       use |-> iABC("OP_RETURN1", 2, 2, 0, 0)],           \* local t = {} .. return t
      [head |-> <<iABC("OP_CALL", 5, 1, 2, 0)>>,
       use |-> iABC("OP_RETURN1", 5, 2, 0, 0)],           \* local v = f() .. return v
      [head |-> <<iABC("OP_GETTABUP", 5, 0, 0, 0)>>,
       use |-> iABC("OP_CALL", 5, 1, 1, 0)],              \* x()
      [head |-> <<iABx("OP_CLOSURE", 5, 1)>>,
       use |-> iABC("OP_SETTABUP", 0, 2, 5, 0)] }         \* X = function .. end

InitLong ==
    /\ \E pu \in ProducerUses : \E n \in 0..MaxGap :
          tree = ScanTree(pu.head \o GapCode(n) \o <<pu.use>> \o StmtReturn)
    /\ Start

SpecLong == InitLong /\ [][Next]_vars

\* some instruction among the window instructions before pc has reg as A
TargetsWithin(f, pc, reg, window) ==
    \E j \in 0..(pc - 1) :
        pc - j <= window /\ GETARG_A(At(f.code, j)) = reg

\* C15: every backward scan started at pc looks only at instructions within
\* a fixed number of positions before pc: whenever the table-origin trace,
\* the return-value source scan, the callee scan or the global-write value
\* scan reports an instruction it found, that instruction is at most the
\* largest window (32) before pc.
C15_ScansStayInWindow ==
    \A fr \in Frames : \A q \in 0..(fr.pc - 1) :
        LET f == tree[fr.f]
            ins == At(f.code, q)
            op == GET_OPCODE(ins)
        IN  /\ (op = "OP_RETURN1"
                  /\ find_newtable_for_reg(f, q, GETARG_A(ins)) >= 0)
                => q - find_newtable_for_reg(f, q, GETARG_A(ins))
                       <= CalleeWindow
            /\ (op = "OP_RETURN1"
                  /\ classify_return(f, q)
                        \in {RETURN_KIND_CALL, RETURN_KIND_UPVALUE,
                             RETURN_KIND_CONSTANT})
                => TargetsWithin(f, q, GETARG_A(ins), ReturnSourceWindow)
            /\ (op = "OP_CALL"
                  /\ resolve_callee(f, q, GETARG_A(ins)).kind
                        # CALL_KIND_UNKNOWN)
                => TargetsWithin(f, q, GETARG_A(ins), CalleeWindow)
            /\ (op = "OP_SETTABUP" /\ GETARG_k(ins) = 0
                  /\ ClosureValueScan(f, q - 1,
                        IF q - GlobalWindow < 0 THEN 0 ELSE q - GlobalWindow,
                        GETARG_C(ins)).is_fn)
                => TargetsWithin(f, q, GETARG_C(ins), GlobalWindow)

-----------------------------------------------------------------------------
(* The register traces and the size decoders applied on their own: the      *)
(* input is the code of one function, and a step applies one of them at     *)
(* some pc for some register.                                               *)

\* instructions on registers 2 and 3
TraceCodePool ==
    { iABx("OP_CLOSURE", 2, 0),          \* R2 := closure
      iABC("OP_NEWTABLE", 2, 1, 3, 0),   \* R2 := {}
      iABC("OP_SETFIELD", 2, 0, 3, 0),   \* R2.x := R3
      iABC("OP_2Q", 2, 2, 3, 0),         \* R2 := R2 ?? R3
      iABx("OP_LOADI", 2, 1),            \* R2 := 1
      iABx("OP_LOADI", 3, 1) }           \* R3 := 1

\* a NEWTABLE with the raw fields b, c, k, alone or followed by an instruction
SizeCodes ==
    { <<iABC("OP_NEWTABLE", 2, b, c, k)>> \o tail :
        b \in {0, 1, 3, 31, 32, 33, 255}, c \in {0, 7, 255}, k \in {0, 1},
        tail \in {<<>>, <<iABx("OP_LOADI", 3, 1)>>}
                 \cup {<<iAx("OP_EXTRAARG", ax)>> :
                          ax \in {0, 1, 8388607, 8388608, 33554431}} }

TraceProto(code) ==
    [code |-> code, k |-> <<KStr("x"), KInt, KStr("X")>>, p |-> <<>>,
     upvalues |-> <<"_ENV">>, numparams |-> 0, is_vararg |-> TRUE,
     linedefined |-> 0, abslineinfo |-> <<>>, lineinfo |-> <<>>,
     lastlinedefined |-> 0, source |-> "@chunk", locvars |-> <<>>]

InitTrace ==
    /\ \E code \in StmtSeqs(TraceCodePool, MaxTrace) \cup SizeCodes :
          tree = <<TraceProto(code)>>
    /\ report = [functions |-> <<>>, globals |-> <<>>]
    /\ stack = <<>>
    /\ phase = "probe"
    /\ writes = <<>>
    /\ probe = NoProbe
    /\ heap = EmptyHeap
    /\ json = <<>>

ProbeRegSource ==
    /\ phase = "probe"
    /\ \E pc \in 0..sizecode(tree[RootProto]) : \E reg \in {2, 3} :
          probe' = [NoProbe EXCEPT
                      !.fn = "find_reg_source", !.pc = pc, !.reg = reg,
                      !.result = find_reg_source(tree[RootProto], pc, reg)]
    /\ UNCHANGED <<tree, report, stack, phase, writes, heap, json>>

ProbeNewtable ==
    /\ phase = "probe"
    /\ \E pc \in 0..sizecode(tree[RootProto]) : \E reg \in {2, 3} :
          probe' = [NoProbe EXCEPT
                      !.fn = "find_newtable_for_reg", !.pc = pc, !.reg = reg,
                      !.result =
                          find_newtable_for_reg(tree[RootProto], pc, reg)]
    /\ UNCHANGED <<tree, report, stack, phase, writes, heap, json>>

\* the two decoders at a NEWTABLE, as the scan of OP_NEWTABLE calls them
ProbeDecode ==
    /\ phase = "probe"
    /\ \E pc \in 0..(sizecode(tree[RootProto]) - 1) :
          /\ GET_OPCODE(At(tree[RootProto].code, pc)) = "OP_NEWTABLE"
          /\ \E arr \in decode_array_size(tree[RootProto], pc) :
             \E hsh \in decode_hash_size(
                            GETARG_B(At(tree[RootProto].code, pc))) :
                probe' = [NoProbe EXCEPT !.fn = "decode", !.pc = pc,
                                         !.hash_size = hsh,
                                         !.array_size = arr]
    /\ UNCHANGED <<tree, report, stack, phase, writes, heap, json>>

NextTrace == ProbeRegSource \/ ProbeNewtable \/ ProbeDecode

SpecTrace == InitTrace /\ [][NextTrace]_vars

-----------------------------------------------------------------------------
(* Claims about the register traces and the size decoders *)

\* the instructions that write R[A]: the writers the two traces list, the
\* two constructions they look for, and OP_2Q
RegisterWriters ==
    RegSourceWriters \cup NewtableScanWriters \cup {"OP_2Q"}

WritesReg(ins, reg) ==
    GET_OPCODE(ins) \in RegisterWriters /\ GETARG_A(ins) = reg

\* the index of the last instruction in limit..pc-1 that writes reg, or -1
LastWriter(f, pc, reg, limit) ==
    LET W == {j \in limit..(pc - 1) : WritesReg(At(f.code, j), reg)}
    IN  IF W = {} THEN -1 ELSE CHOOSE j \in W : \A i \in W : i <= j

ProbedCode == tree[RootProto]

\* C16: the closure-origin trace answers 'closure' (1) only if the last
\* instruction of the window that writes reg is a closure construction, 'not
\* a closure' (0) when it is another writer, and 'indeterminate' (-1) when
\* the window holds no writer of reg.
C16_ClosureTraceExact ==
    probe.fn = "find_reg_source" =>
        LET limit == IF probe.pc - RegSourceWindow < 0 THEN 0
                     ELSE probe.pc - RegSourceWindow
            last == LastWriter(ProbedCode, probe.pc, probe.reg, limit)
        IN  /\ probe.result = 1 =>
                  /\ last >= 0
                  /\ GET_OPCODE(At(ProbedCode.code, last)) = "OP_CLOSURE"
            /\ (last >= 0
                  /\ GET_OPCODE(At(ProbedCode.code, last)) # "OP_CLOSURE")
                  => probe.result = 0
            /\ last < 0 => probe.result = -1

\* C17: the table-origin trace answers the index i of a NEWTABLE into reg
\* only if no instruction between i and pc writes reg (stores into the table
\* in reg are not writes), and answers -1 when the last writer of reg before
\* pc is anything else.
C17_TableTraceExact ==
    probe.fn = "find_newtable_for_reg" =>
        LET last == LastWriter(ProbedCode, probe.pc, probe.reg, 0)
        IN  /\ probe.result >= 0 =>
                  /\ probe.result < probe.pc
                  /\ GET_OPCODE(At(ProbedCode.code, probe.result))
                         = "OP_NEWTABLE"
                  /\ GETARG_A(At(ProbedCode.code, probe.result)) = probe.reg
                  /\ last = probe.result
            /\ (last >= 0
                  /\ GET_OPCODE(At(ProbedCode.code, last)) # "OP_NEWTABLE")
                  => probe.result = -1

\* the raw fields of the decoded NEWTABLE and of the instruction after it
ProbedB == GETARG_B(At(ProbedCode.code, probe.pc))
ProbedC == GETARG_C(At(ProbedCode.code, probe.pc))
Probedk == GETARG_k(At(ProbedCode.code, probe.pc))
ProbedExtra ==
    /\ probe.pc + 1 < sizecode(ProbedCode)
    /\ GET_OPCODE(At(ProbedCode.code, probe.pc + 1)) = "OP_EXTRAARG"
ProbedAx == GETARG_Ax(At(ProbedCode.code, probe.pc + 1))

\* C18 as stated: the hash size is 0 for B = 0 and 2^(B-1) for every other
\* B; the array size is C when k is clear, (Ax << 8) | C when k is set and
\* an EXTRAARG follows, and C when k is set and none follows.  (An int holds
\* 2^(B-1) only for B - 1 < 31, and Ax * 256 only for Ax < 2^23.)
C18_SizesDecodedForAllFields ==
    probe.fn = "decode" =>
        /\ ProbedB = 0 => probe.hash_size = 0
        /\ ProbedB > 0 =>
              ProbedB - 1 < 31 /\ probe.hash_size = 2 ^ (ProbedB - 1)
        /\ Probedk = 0 => probe.array_size = ProbedC
        /\ (Probedk = 1 /\ ProbedExtra) =>
              /\ ProbedAx < 8388608
              /\ probe.array_size = ProbedAx * 256 + ProbedC
        /\ (Probedk = 1 /\ ~ProbedExtra) => probe.array_size = ProbedC

\* C18, amended: the same for the fields whose size fits an int, B <= 31
\* and Ax < 2^23.
C18_SizesDecoded ==
    probe.fn = "decode" =>
        /\ ProbedB = 0 => probe.hash_size = 0
        /\ (ProbedB > 0 /\ ProbedB - 1 < 31) =>
              probe.hash_size = 2 ^ (ProbedB - 1)
        /\ Probedk = 0 => probe.array_size = ProbedC
        /\ (Probedk = 1 /\ ProbedExtra /\ ProbedAx < 8388608) =>
              probe.array_size = ProbedAx * 256 + ProbedC
        /\ (Probedk = 1 /\ ~ProbedExtra) => probe.array_size = ProbedC

\* an extended array size with both parts non-zero and the largest hash size
C18_Witness ==
    /\ probe.fn = "decode"
    /\ Probedk = 1 /\ ProbedExtra /\ ProbedAx = 8388607 /\ ProbedC = 255
    /\ ProbedB = 31
    /\ probe.array_size = 2147483647
    /\ probe.hash_size = 1073741824

-----------------------------------------------------------------------------
(* Inputs for the call sites: a main chunk without locals, so that the      *)
(* callee of every call statement is loaded into register 0 and the         *)
(* arguments into the registers above it.                                   *)

CallArgs(n) == [j \in 1..n |-> iABx("OP_LOADI", j, j)]

StmtCallFar(n) ==                                       \* x(1, 2, .., n)
    <<iABC("OP_GETTABUP", 0, 0, 0, 0)>> \o CallArgs(n)
        \o <<iABC("OP_CALL", 0, n + 1, 1, 0)>>

CallStmts ==
    { <<iABC("OP_GETTABUP", 0, 0, 0, 0),
        iABC("OP_CALL", 0, 1, 1, 0)>>,                  \* x()
      <<iABC("OP_GETTABUP", 0, 1, 2, 0),
        iABC("OP_CALL", 0, 1, 1, 0)>>,                  \* up.y()
      <<iABC("OP_GETTABUP", 0, 1, 0, 0),
        iABC("OP_CALL", 0, 1, 1, 0)>>,                  \* up.x()
      <<iABC("OP_GETTABUP", 0, 0, 0, 0), iABC("OP_GETFIELD", 0, 0, 2, 0),
        iABC("OP_CALL", 0, 1, 1, 0)>>,                  \* x.y()
      <<iABC("OP_GETUPVAL", 0, 1, 0, 0), iABC("OP_GETFIELD", 0, 0, 2, 0),
        iABC("OP_CALL", 0, 1, 1, 0)>>,                  \* up.y(), up a local
      <<iABC("OP_GETTABUP", 0, 0, 0, 0), iABC("OP_GETFIELD", 0, 0, 2, 0),
        iABC("OP_GETFIELD", 0, 0, 2, 0),
        iABC("OP_CALL", 0, 1, 1, 0)>>,                  \* x.y.y()
      <<iABC("OP_GETTABUP", 0, 0, 0, 0), iABC("OP_SELF", 0, 0, 2, 1),
        iABC("OP_CALL", 0, 2, 1, 0)>>,                  \* x:y()
      <<iABC("OP_GETTABUP", 0, 0, 0, 0), iABC("OP_SELF", 0, 0, 2, 1),
        iABx("OP_LOADI", 2, 1), iABx("OP_LOADI", 3, 2),
        iABC("OP_CALL", 0, 4, 1, 0)>>,                  \* x:y(1, 2)
      <<iABC("OP_GETTABUP", 0, 0, 0, 0), iABC("OP_SELF", 0, 0, 2, 1),
        iABC("OP_VARARG", 2, 0, 0, 0),
        iABC("OP_TAILCALL", 0, 0, 0, 0)>>,              \* return x:y(...)
      <<iABC("OP_GETUPVAL", 0, 1, 0, 0),
        iABC("OP_TAILCALL", 0, 1, 0, 0)>>,              \* return up()
      <<iABx("OP_CLOSURE", 0, 0),
        iABC("OP_CALL", 0, 1, 1, 0)>>,                  \* (function .. end)()
      <<iABx("OP_LOADK", 0, 0),
        iABC("OP_CALL", 0, 1, 1, 0)>>,                  \* ("x")()
      <<iABC("OP_GETTABUP", 0, 0, 0, 0), iABC("OP_NEWTABLE", 1, 0, 0, 0),
        iAx("OP_EXTRAARG", 0),
        iABC("OP_CALL", 0, 2, 1, 0)>>,                  \* x({})
      <<iABC("OP_VARARG", 1, 0, 0, 0), iABx("OP_CLOSURE", 1, 0),
        iABC("OP_SETTABUP", 0, 0, 1, 0)>>,              \* x = function .. end
      StmtCallFar(CalleeWindow - 1),
      StmtCallFar(CalleeWindow) }

CallTree(code) ==
    [ScanTree(code) EXCEPT ![RootProto].numparams = 0,
                           ![RootProto].is_vararg = TRUE,
                           ![RootProto].linedefined = 0]

InitCalls ==
    /\ \E ss \in StmtSeqs(CallStmts, MaxCalls) :
          tree = CallTree(Flatten(ss) \o StmtReturn)
    /\ Start

SpecCalls == InitCalls /\ [][Next]_vars

-----------------------------------------------------------------------------
(* Claims about the call sites *)

KeyAt(f, j) == getstr(At(f.k, GETARG_C(At(f.code, j))))
StringKeyAt(f, j) ==
    /\ GETARG_C(At(f.code, j)) < sizek(f)
    /\ ttisstring(At(f.k, GETARG_C(At(f.code, j))))

\* the name of the base register of the field read at j: the key of the
\* table-upvalue read that loaded it, or "?"
BaseOf(f, j) ==
    LET src == LastWriter(f, j, GETARG_B(At(f.code, j)),
                          IF j - BaseWindow < 0 THEN 0 ELSE j - BaseWindow)
    IN  IF src >= 0 /\ GET_OPCODE(At(f.code, src)) = "OP_GETTABUP"
           /\ StringKeyAt(f, src)
        THEN KeyAt(f, src) ELSE "?"

\* kind and callee of the call at pc by the instruction that last wrote the
\* callee register within the window
ByLastWriter(f, pc) ==
    LET reg == GETARG_A(At(f.code, pc))
        j == LastWriter(f, pc, reg,
                        IF pc - CalleeWindow < 0 THEN 0
                        ELSE pc - CalleeWindow)
        op == GET_OPCODE(At(f.code, j))
    IN  IF j < 0 THEN Unresolved
        ELSE IF op = "OP_GETTABUP" /\ StringKeyAt(f, j)
             THEN IF GETARG_B(At(f.code, j)) = 0
                  THEN [kind |-> CALL_KIND_GLOBAL,
                        callee |-> PlainName(KeyAt(f, j))]
                  ELSE [kind |-> CALL_KIND_FIELD,
                        callee |-> DottedName(
                            UpvalueNameOr(f, GETARG_B(At(f.code, j)), "?"),
                            KeyAt(f, j))]
        ELSE IF op = "OP_GETFIELD" /\ StringKeyAt(f, j)
             THEN [kind |-> CALL_KIND_FIELD,
                   callee |-> DottedName(BaseOf(f, j), KeyAt(f, j))]
        ELSE IF op = "OP_SELF" /\ StringKeyAt(f, j)
             THEN [kind |-> CALL_KIND_METHOD,
                   callee |-> PlainName(KeyAt(f, j))]
        ELSE IF op \in {"OP_MOVE", "OP_GETUPVAL", "OP_CLOSURE"}
             THEN [kind |-> CALL_KIND_LOCAL, callee |-> NoName]
        ELSE Unresolved

\* the call instructions among the first n instructions of f, in order
CallPcs(f, n) ==
    SelectSeq([j \in 1..n |-> j - 1],
              LAMBDA q : GET_OPCODE(At(f.code, q))
                             \in {"OP_CALL", "OP_TAILCALL"})

\* C19: the kind and callee recorded for every call instruction are those of
\* the instruction that last wrote the callee register within the 32
\* instructions before the call: GLOBAL, FIELD, METHOD, LOCAL by the rules
\* of the resolver, UNKNOWN when there is no writer or another one.
C19_CalleeByLastWriter ==
    \A fr \in Frames :
        LET f == tree[fr.f]
            pcs == CallPcs(f, fr.pc)
            sites == RecordOf(fr).call_sites
        IN  /\ Len(sites) = Len(pcs)
            /\ \A n \in 1..Len(pcs) :
                  /\ sites[n].kind = ByLastWriter(f, pcs[n]).kind
                  /\ sites[n].callee = ByLastWriter(f, pcs[n]).callee

\* the callee register of the call at pc was loaded by a field read whose
\* base register was itself loaded by a field read
DeepFieldChain(f, pc) ==
    LET j == LastWriter(f, pc, GETARG_A(At(f.code, pc)), 0)
        b == LastWriter(f, j, GETARG_B(At(f.code, j)), 0)
    IN  /\ j >= 0 /\ GET_OPCODE(At(f.code, j)) = "OP_GETFIELD"
        /\ b >= 0 /\ GET_OPCODE(At(f.code, b)) = "OP_GETFIELD"

\* C20: a call reached through a field chain deeper than one level, as in
\* a.b.c(), is recorded with kind CALL_KIND_UNKNOWN (0).
C20_DeepChainUnknown ==
    \A fr \in Frames :
        LET f == tree[fr.f]
            pcs == CallPcs(f, fr.pc)
            sites == RecordOf(fr).call_sites
        IN  \A n \in 1..Len(pcs) :
               (n <= Len(sites) /\ DeepFieldChain(f, pcs[n]))
                   => sites[n].kind = CALL_KIND_UNKNOWN

-----------------------------------------------------------------------------
(* Claims about the call-site records of method calls *)

\* the call at pc is a method call: the callee register was last written by
\* a SELF with a string key, which also put the receiver in the register
\* above it, and the CALL counts its operands
MethodCall(f, pc) ==
    LET j == LastWriter(f, pc, GETARG_A(At(f.code, pc)), 0)
    IN  /\ GET_OPCODE(At(f.code, pc)) = "OP_CALL"
        /\ GETARG_B(At(f.code, pc)) >= 2
        /\ j >= 0 /\ pc - j <= CalleeWindow
        /\ GET_OPCODE(At(f.code, j)) = "OP_SELF"
        /\ StringKeyAt(f, j)

\* the explicit arguments of a method call: the operands of the CALL are the
\* receiver and the explicit arguments, and B is their number plus one
ExplicitArgs(f, pc) == GETARG_B(At(f.code, pc)) - 2

\* C21: every call instruction produces exactly one call-site record; its
\* arg_count is -1 when B is the variable-arity sentinel 0, its is_tail is
\* true exactly for TAILCALL; and the record of a method call
\* obj:method(a1..an) has kind METHOD (3), callee = the method key,
\* is_tail = false and arg_count = n.
C21_MethodCallRecorded ==
    \A fr \in Frames :
        LET f == tree[fr.f]
            pcs == CallPcs(f, fr.pc)
            sites == RecordOf(fr).call_sites
        IN  /\ Len(sites) = Len(pcs)
            /\ \A n \in 1..Len(pcs) :
                  LET call == At(f.code, pcs[n])
                  IN  /\ GETARG_B(call) = 0 => sites[n].arg_count = -1
                      /\ sites[n].is_tail
                             <=> GET_OPCODE(call) = "OP_TAILCALL"
                      /\ MethodCall(f, pcs[n]) =>
                            /\ sites[n].kind = CALL_KIND_METHOD
                            /\ sites[n].callee
                                   = PlainName(KeyAt(f, LastWriter(f, pcs[n],
                                                  GETARG_A(call), 0)))
                            /\ ~sites[n].is_tail
                            /\ sites[n].arg_count = ExplicitArgs(f, pcs[n])

-----------------------------------------------------------------------------
(* Inputs for the lines of call sites: one function with calls at the       *)
(* instructions 4 and 10, and the line tables a chunk can carry for it: a   *)
(* sparse table of checkpoints sorted by instruction index, a dense table   *)
(* of one signed delta per instruction, or none.                            *)

\* x(x.y, ...); local u = {}; x = function .. end; x(); return
LinesCode ==
    StmtPrint \o StmtLocalTable \o StmtSetGlobalFunction
        \o <<iABC("OP_GETTABUP", 3, 0, 0, 0), iABC("OP_CALL", 3, 1, 1, 0)>>
        \o StmtReturn

CheckpointPcs == {0, 4, 10, 11}
CheckpointLines == {5, 7}

\* the sparse tables of n checkpoints, sorted by instruction index
SparseTables(n) ==
    {t \in [1..n -> [pc : CheckpointPcs, line : CheckpointLines]] :
        \A i \in 1..(n - 1) : t[i].pc <= t[i + 1].pc}

\* the dense tables: the deltas repeat with period 3
DenseTables ==
    {[j \in 1..Len(LinesCode) |-> d[((j - 1) % 3) + 1]] :
        d \in [1..3 -> {-1, 2}]}

LinesTree(abs, dense) ==
    [ScanTree(LinesCode) EXCEPT ![RootProto].abslineinfo = abs,
                                ![RootProto].lineinfo = dense]

InitLines ==
    /\ \E n \in 0..MaxCheckpoints : \E abs \in SparseTables(n) :
       \E dense \in DenseTables \cup {<<>>} :
          tree = LinesTree(abs, dense)
    /\ Start

SpecLines == InitLines /\ [][Next]_vars

-----------------------------------------------------------------------------
(* Claims about the line of a call site *)

\* the entries of the sparse table of f at or before pc
CheckpointsUpTo(f, pc) ==
    {i \in 1..Len(f.abslineinfo) : f.abslineinfo[i].pc <= pc}

\* the line a search from the first entry on finds: that of the last
\* checkpoint at or before pc, 0 without one
LinearLine(f, pc) ==
    IF CheckpointsUpTo(f, pc) = {} THEN 0
    ELSE f.abslineinfo[CHOOSE i \in CheckpointsUpTo(f, pc) :
                          \A j \in CheckpointsUpTo(f, pc) : j <= i].line

RECURSIVE DeltaPrefix(_, _)
\* the sum of the first n deltas
DeltaPrefix(deltas, n) ==
    IF n = 0 THEN 0 ELSE DeltaPrefix(deltas, n - 1) + deltas[n]

\* C22: the line recorded for the call at pc is, with a non-empty sparse
\* table sorted by instruction index, the line of the last checkpoint whose
\* instruction index is <= pc (what a linear search finds) and 0 when every
\* checkpoint lies after pc; otherwise, with a dense table, linedefined plus
\* the sum of the deltas of the instructions 0..pc; and 0 without a table.
C22_CallLine ==
    \A fr \in Frames :
        LET f == tree[fr.f]
            pcs == CallPcs(f, fr.pc)
            sites == RecordOf(fr).call_sites
        IN  \A n \in 1..Len(pcs) :
               /\ n <= Len(sites)
               /\ sites[n].line =
                     IF Len(f.abslineinfo) > 0 THEN LinearLine(f, pcs[n])
                     ELSE IF f.lineinfo # <<>>
                          THEN f.linedefined
                                   + DeltaPrefix(f.lineinfo, pcs[n] + 1)
                          ELSE 0

\* a sparse table with checkpoints after the first call, at the second call
\* and after it: the first call has line 0, the second the line of the
\* checkpoint at its own index
C22_Witness ==
    /\ phase = "done"
    /\ Len(tree[RootProto].abslineinfo) = 3
    /\ tree[RootProto].abslineinfo[1].pc = 10
    /\ tree[RootProto].abslineinfo[2] = [pc |-> 10, line |-> 7]
    /\ tree[RootProto].abslineinfo[3] = [pc |-> 11, line |-> 5]
    /\ Len(At(report.functions, 0).call_sites) = 2
    /\ At(report.functions, 0).call_sites[1].line = 0
    /\ At(report.functions, 0).call_sites[2].line = 7

-----------------------------------------------------------------------------
(* Inputs for the reads: a function that captures the global environment    *)
(* and a local of the enclosing function, in a chunk that carries the names *)
(* of the upvalues or in a stripped one.                                    *)

ReadStmts ==
    { <<iABC("OP_GETTABUP", 2, 0, 0, 0)>>,              \* local v = x
      <<iABC("OP_GETTABUP", 2, 1, 2, 0)>>,              \* local v = up.y
      <<iABC("OP_GETTABUP", 2, 1, 1, 0)>>,              \* upvalue 1, key not a string
      <<iABC("OP_GETFIELD", 2, 3, 2, 0)>>,              \* local v = t.y
      <<iABC("OP_GETTABUP", 2, 0, 0, 0),
        iABC("OP_GETFIELD", 2, 2, 0, 0)>> }             \* local v = x.x

\* x(x.y, ...); local u = {}; x = function .. end; return
ReadsTail ==
    StmtPrint \o StmtLocalTable \o StmtSetGlobalFunction \o StmtReturn

ReadsTree(code, upvalues) ==
    [ScanTree(code) EXCEPT ![RootProto].upvalues = upvalues]

InitReads ==
    /\ \E ss \in StmtSeqs(ReadStmts, MaxReads) :
       \E upvalues \in {<<"_ENV", "up">>, <<"_ENV", NULL>>, <<NULL, NULL>>} :
          tree = ReadsTree(Flatten(ss) \o ReadsTail, upvalues)
    /\ Start

SpecReads == InitReads /\ [][Next]_vars

-----------------------------------------------------------------------------
(* Claims about the read entries *)

\* the scanned reads of f with a string key: table-upvalue reads and
\* register field reads
UpvalueReads(f, n) ==
    {q \in 0..(n - 1) : /\ GET_OPCODE(At(f.code, q)) = "OP_GETTABUP"
                         /\ StringKeyAt(f, q)}
FieldReads(f, n) ==
    {q \in 0..(n - 1) : /\ GET_OPCODE(At(f.code, q)) = "OP_GETFIELD"
                         /\ StringKeyAt(f, q)}

HasRead(fi, tbl, field) ==
    \E i \in 1..Len(fi.reads) :
        fi.reads[i].table_name = tbl /\ fi.reads[i].field_name = field

\* C23: a read entry has table_name "_ENV" only for a table-upvalue read
\* through upvalue 0; a table-upvalue read through another upvalue is
\* recorded under that upvalue's name, and under a name other than "_ENV"
\* also when the upvalue's name is unavailable; a register field read is
\* recorded under "?".
C23_ReadTableNames ==
    \A fr \in Frames :
        LET f == tree[fr.f]
            fi == RecordOf(fr)
        IN  /\ \A i \in 1..Len(fi.reads) :
                  fi.reads[i].table_name = "_ENV" =>
                      \E q \in UpvalueReads(f, fr.pc) :
                          /\ GETARG_B(At(f.code, q)) = 0
                          /\ KeyAt(f, q) = fi.reads[i].field_name
            /\ \A q \in UpvalueReads(f, fr.pc) :
                  LET upv == GETARG_B(At(f.code, q))
                  IN  upv # 0 =>
                         /\ \E i \in 1..Len(fi.reads) :
                               /\ fi.reads[i].field_name = KeyAt(f, q)
                               /\ fi.reads[i].table_name # "_ENV"
                         /\ (upv < sizeupvalues(f)
                               /\ At(f.upvalues, upv) # NULL)
                               => HasRead(fi, At(f.upvalues, upv),
                                          KeyAt(f, q))
            /\ \A q \in FieldReads(f, fr.pc) : HasRead(fi, "?", KeyAt(f, q))

-----------------------------------------------------------------------------
(* classify_return applied on its own to the two encodings of a return of   *)
(* one value: the input is the code before the return, and a step           *)
(* classifies  RETURN1 reg  and  RETURN reg 2  after it.                    *)

\* instructions on registers 2 and 3
ReturnPrefixPool ==
    { iABC("OP_NEWTABLE", 2, 0, 0, 0),   \* R2 := {}
      iABC("OP_SETFIELD", 2, 0, 3, 0),   \* R2.x := R3
      iABC("OP_CALL", 2, 1, 2, 0),       \* R2 := R2()
      iABC("OP_GETUPVAL", 2, 1, 0, 0),   \* R2 := up
      iABC("OP_GETTABUP", 2, 0, 0, 0),   \* R2 := x
      iABx("OP_CLOSURE", 2, 0),          \* R2 := function .. end
      iABx("OP_LOADI", 2, 1),            \* R2 := 1
      iABx("OP_LOADI", 3, 1) }           \* R3 := 1

InitReturnPair ==
    /\ \E code \in StmtSeqs(ReturnPrefixPool, MaxPrefix) :
          tree = ScanTree(code)
    /\ report = [functions |-> <<>>, globals |-> <<>>]
    /\ stack = <<>>
    /\ phase = "probe"
    /\ writes = <<>>
    /\ probe = NoProbe
    /\ heap = EmptyHeap
    /\ json = <<>>

\* the code of f followed by the instruction ret
WithReturn(f, ret) == [f EXCEPT !.code = Append(@, ret)]

ProbeClassifyReturn ==
    /\ phase = "probe"
    /\ \E reg \in {2, 3} :
          LET f == tree[RootProto]
              pc == sizecode(f)
          IN  probe' = [NoProbe EXCEPT
                 !.fn = "classify_return", !.pc = pc, !.reg = reg,
                 !.result =
                     classify_return(
                         WithReturn(f, iABC("OP_RETURN1", reg, 2, 0, 0)), pc),
                 !.other =
                     classify_return(
                         WithReturn(f, iABC("OP_RETURN", reg, 2, 0, 0)), pc)]
    /\ UNCHANGED <<tree, report, stack, phase, writes, heap, json>>

NextReturnPair == ProbeClassifyReturn

SpecReturnPair == InitReturnPair /\ [][NextReturnPair]_vars

\* C27: a return of one value encoded as RETURN with B = 2 is classified as
\* the same return encoded as RETURN1, for every code before it and every
\* returned register.
C27_ReturnEncodingsAgree ==
    probe.fn = "classify_return" => probe.other = probe.result

-----------------------------------------------------------------------------
(* Claim about the merge as a function of the return sites *)

\* the classifications of the return sites among the first n instructions
SiteKinds(f, n) == {classify_return(f, q) : q \in ReturnSites(f, n)}

\* the verdict for a set of site classifications
VerdictOf(kinds) ==
    LET strong == kinds \cap StrongKinds
    IN  IF Cardinality(strong) >= 2 THEN RETURN_KIND_MIXED
        ELSE IF Cardinality(strong) = 1 THEN CHOOSE kind \in strong : TRUE
        ELSE IF RETURN_KIND_VOID \in kinds THEN RETURN_KIND_VOID
        ELSE RETURN_KIND_UNKNOWN

\* C29: the merged return_kind depends only on which classifications the
\* scanned return sites have, not on their order: mixed if two distinct
\* strong kinds occur, the strong kind if exactly one occurs, void if no
\* strong kind occurs and some site is void, unknown otherwise.
C29_MergeIgnoresOrder ==
    \A fr \in Frames :
        RecordOf(fr).return_kind = VerdictOf(SiteKinds(tree[fr.f], fr.pc))

\* a finished scan of four return sites: a void site first, an unknown site
\* after it, then a strong site and a void site again; the verdict is the
\* strong kind
C29_Witness ==
    \E fr \in Frames :
        LET f == tree[fr.f]
        IN  /\ ScanDone(fr)
            /\ \E q1, q2, q3, q4 \in ReturnSites(f, fr.pc) :
                  /\ q1 < q2 /\ q2 < q3 /\ q3 < q4
                  /\ ReturnSites(f, fr.pc) = {q1, q2, q3, q4}
                  /\ classify_return(f, q1) = RETURN_KIND_VOID
                  /\ classify_return(f, q2) = RETURN_KIND_UNKNOWN
                  /\ classify_return(f, q3) \in StrongKinds
                  /\ classify_return(f, q4) = RETURN_KIND_VOID
                  /\ RecordOf(fr).return_kind = classify_return(f, q3)

-----------------------------------------------------------------------------
(* Claim relating the call sites to the reads *)

\* C30: in every function record, each call site of kind GLOBAL with callee
\* name n is matched by a read entry ("_ENV", n) of the same record.
C30_GlobalCalleeWasRead ==
    \A n \in 1..Len(report.functions) :
        LET fi == report.functions[n]
        IN  \A c \in 1..Len(fi.call_sites) :
               fi.call_sites[c].kind = CALL_KIND_GLOBAL =>
                   HasRead(fi, "_ENV", fi.call_sites[c].callee.key)

\* the chunk  up.x(); x() : the name x was first read through another
\* upvalue, the call of the global x is recorded, and both reads are there
C30_Witness ==
    /\ phase = "done"
    /\ Len(At(report.functions, 0).call_sites) = 2
    /\ At(report.functions, 0).call_sites[1].kind = CALL_KIND_FIELD
    /\ At(report.functions, 0).call_sites[1].callee = DottedName("up", "x")
    /\ At(report.functions, 0).call_sites[2].kind = CALL_KIND_GLOBAL
    /\ At(report.functions, 0).call_sites[2].callee = PlainName("x")
    /\ At(report.functions, 0).reads
           = <<[table_name |-> "up", field_name |-> "x"],
               [table_name |-> "_ENV", field_name |-> "x"]>>

-----------------------------------------------------------------------------
(* JSON serialization.  The output is kept as the sequence of its tokens;  *)
(* the white space write_indent and the line ends add is left out.         *)

\* json_write_string: the names of the explored inputs hold no character
\* that is escaped
json_write_string(s) == IF s = NULL THEN "\"\"" ELSE "\"" \o s \o "\""

JsonBool(b) == IF b THEN "true" ELSE "false"

RECURSIVE JsonElements(_)
\* the elements of an array, a comma after each but the last
JsonElements(items) ==
    IF items = <<>> THEN <<>>
    ELSE IF Len(items) = 1 THEN Head(items)
    ELSE Head(items) \o <<",">> \o JsonElements(Tail(items))

JsonArray(items) == <<"[">> \o JsonElements(items) \o <<"]">>

write_string_array(arr) ==
    JsonArray([i \in 1..Len(arr) |-> <<json_write_string(arr[i])>>])

\* the decimal digits of 16 * n for n >= 0, computed without leaving 32 bits:
\* 16 * n = 10000 * (n \div 625) + 16 * (n % 625)
Decimal16(n) ==
    LET low == 16 * (n % 625)
        pad == IF low < 10 THEN "000" ELSE IF low < 100 THEN "00"
               ELSE IF low < 1000 THEN "0" ELSE ""
    IN  IF n < 625 THEN ToString(low)
        ELSE ToString(n \div 625) \o pad \o ToString(low)

\* %zu of estimated_bytes, which is kept in units of 16 bytes; a negative
\* sum converted to size_t is 2^64 minus its magnitude and is written so
FormatEstimatedBytes(est16) ==
    IF est16 >= 0 THEN Decimal16(est16)
    ELSE "2^64-" \o Decimal16(0 - est16)

write_table_info(ti) ==
    <<"{", "\"array_size\":", ToString(ti.array_size), ",",
      "\"hash_size\":", ToString(ti.hash_size), ",",
      "\"estimated_bytes\":",
      FormatEstimatedBytes(ti.estimated_bytes16), ",",
      "\"contains_closures\":", JsonBool(ti.contains_closures), "}">>

write_constant(ce) ==
    <<"{", "\"kind\":", ToString(ce.kind), ",", "\"s_val\":">>
    \o (IF ce.kind = CONST_KIND_STRING
        THEN <<json_write_string(ce.s_val), ",", "\"i_val\":", "0">>
        ELSE IF ce.kind = CONST_KIND_INTEGER
        THEN <<"null", ",", "\"i_val\":", ToString(ce.i_val)>>
        ELSE <<"null", ",", "\"i_val\":", "0">>)
    \o <<",", "\"f_val\":", "0.0", ",", "\"b_val\":", "false", "}">>

write_constant_array(arr) ==
    JsonArray([i \in 1..Len(arr) |-> write_constant(arr[i])])

write_int_array(arr) ==
    JsonArray([i \in 1..Len(arr) |-> <<ToString(arr[i])>>])

write_closure_array(arr) ==
    JsonArray([i \in 1..Len(arr) |->
        <<"{", "\"line_defined\":", ToString(arr[i].line_defined), ",",
          "\"upvalue_count\":", ToString(arr[i].upvalue_count), "}">>])

\* the string resolve_callee built: "<key>" or "<base>.<key>"
CalleeString(callee) ==
    IF callee = NoName THEN NULL
    ELSE IF callee.base = NULL THEN callee.key
    ELSE callee.base \o "." \o callee.key

write_call_site_array(arr) ==
    JsonArray([i \in 1..Len(arr) |->
        <<"{", "\"line\":", ToString(arr[i].line), ",",
          "\"kind\":", ToString(arr[i].kind), ",",
          "\"callee\":",
          IF CalleeString(arr[i].callee) # NULL
          THEN json_write_string(CalleeString(arr[i].callee))
          ELSE json_write_string(""), ",",
          "\"arg_count\":", ToString(arr[i].arg_count), ",",
          "\"is_tail\":", JsonBool(arr[i].is_tail), "}">>])

write_read_array(arr) ==
    JsonArray([i \in 1..Len(arr) |->
        <<"{", "\"table_name\":", json_write_string(arr[i].table_name), ",",
          "\"field_name\":", json_write_string(arr[i].field_name), "}">>])

write_function_info(fi) ==
    <<"{", "\"source\":", json_write_string(fi.source), ",",
      "\"line_defined\":", ToString(fi.line_defined), ",",
      "\"last_line\":", ToString(fi.last_line), ",",
      "\"param_count\":", ToString(fi.param_count), ",",
      "\"is_vararg\":", JsonBool(fi.is_vararg), ",",
      "\"is_method\":", JsonBool(fi.is_method), ",",
      "\"param_names\":">>
    \o (IF fi.param_count > 0 /\ fi.param_names # <<>>
        THEN write_string_array(fi.param_names) ELSE <<"[]">>)
    \o <<",", "\"upvalue_names\":">>
    \o (IF fi.upvalue_count > 0 /\ fi.upvalue_names # <<>>
        THEN write_string_array(fi.upvalue_names) ELSE <<"[]">>)
    \o <<",", "\"return_kind\":", ToString(fi.return_kind), ",",
         "\"table_info\":">>
    \o write_table_info(fi.table_info)
    \o <<",", "\"is_vararg_used\":", JsonBool(fi.is_vararg_used), ",",
         "\"closures\":">>
    \o write_closure_array(fi.closures)
    \o <<",", "\"constants\":">>
    \o write_constant_array(fi.constants)
    \o <<",", "\"child_proto_indices\":">>
    \o write_int_array(fi.child_proto_indices)
    \o <<",", "\"call_sites\":">>
    \o write_call_site_array(fi.call_sites)
    \o <<",", "\"reads\":">>
    \o write_read_array(fi.reads)
    \o <<"}">>

DILUVIUM_LUA_VERSION == "5.4.7_rc4"

print_report_json(r) ==
    <<"{", "\"lua_version\":", json_write_string(DILUVIUM_LUA_VERSION), ",",
      "\"functions\":">>
    \o JsonArray([i \in 1..Len(r.functions) |->
                    write_function_info(r.functions[i])])
    \o <<",", "\"globals\":">>
    \o JsonArray([i \in 1..Len(r.globals) |->
         <<"{", "\"name\":", json_write_string(r.globals[i].name), ",",
           "\"is_function\":", JsonBool(r.globals[i].is_function), ",",
           "\"function_index\":", ToString(r.globals[i].function_index),
           "}">>])
    \o <<"}">>

-----------------------------------------------------------------------------
(* The life of a report: analysis, serialization, release, and the next    *)
(* run over the same prototype tree                                         *)

\* the blocks free_report hands to free for the record number i (from 0)
FreeFunctionBlocks(fi, i) ==
    (IF fi.source # NULL THEN {Block("source", i, -1)} ELSE {})
    \cup {Block("param_names[j]", i, j) : j \in 0..(fi.param_count - 1)}
    \cup (IF fi.param_names # <<>>
          THEN {Block("param_names", i, -1)} ELSE {})
    \cup {Block("upvalue_names[j]", i, j) : j \in 0..(fi.upvalue_count - 1)}
    \cup (IF fi.upvalue_names # <<>>
          THEN {Block("upvalue_names", i, -1)} ELSE {})
    \cup (IF fi.closures # <<>> THEN {Block("closures", i, -1)} ELSE {})
    \cup {Block("constants[j].s_val", i, j) :
            j \in {c \in 0..(Len(fi.constants) - 1) :
                      At(fi.constants, c).s_val # NULL}}
    \cup (IF fi.constants # <<>> THEN {Block("constants", i, -1)} ELSE {})
    \cup (IF fi.child_proto_indices # <<>>
          THEN {Block("child_proto_indices", i, -1)} ELSE {})
    \cup (IF fi.pending_proto # <<>>
          THEN {Block("pending_proto", i, -1)} ELSE {})
    \cup {Block("call_sites[j].callee", i, j) :
            j \in {c \in 0..(Len(fi.call_sites) - 1) :
                      At(fi.call_sites, c).callee # NoName}}
    \cup (IF fi.call_sites # <<>> THEN {Block("call_sites", i, -1)} ELSE {})
    \cup {Block("reads[j].table_name", i, j) : j \in 0..(Len(fi.reads) - 1)}
    \cup {Block("reads[j].field_name", i, j) : j \in 0..(Len(fi.reads) - 1)}
    \cup (IF fi.reads # <<>> THEN {Block("reads", i, -1)} ELSE {})

\* free_report that leaves the callee strings of the call sites alone
FreeReportBlocks_KeepsCallees(r) ==
    {b \in UNION {FreeFunctionBlocks(At(r.functions, i), i) :
                     i \in 0..(Len(r.functions) - 1)} :
        b.kind # "call_sites[j].callee"}
    \cup (IF r.functions # <<>> THEN {Block("functions", -1, -1)} ELSE {})
    \cup {Block("globals[i].name", -1, i) : i \in 0..(Len(r.globals) - 1)}
    \cup (IF r.globals # <<>> THEN {Block("globals", -1, -1)} ELSE {})
    \cup {Block("report", -1, -1)}

\* every block free_report hands to free
FreeReportBlocks(r) ==
    UNION {FreeFunctionBlocks(At(r.functions, i), i) :
              i \in 0..(Len(r.functions) - 1)}
    \cup (IF r.functions # <<>> THEN {Block("functions", -1, -1)} ELSE {})
    \cup {Block("globals[i].name", -1, i) : i \in 0..(Len(r.globals) - 1)}
    \cup (IF r.globals # <<>> THEN {Block("globals", -1, -1)} ELSE {})
    \cup {Block("report", -1, -1)}

\* the number of analysis runs over one prototype tree
MaxRuns == 2

\* report_to_json_string: the memory stream opened, the report is printed
\* into it and the buffer is returned
RenderJson ==
    /\ phase = "done"
    /\ json' = Append(json, print_report_json(report))
    /\ phase' = "rendered"
    /\ UNCHANGED <<tree, report, stack, writes, probe, heap>>

\* free_report, on a report that was rendered, was not rendered, or whose
\* rendering returned NULL
FreeReport ==
    /\ phase \in {"done", "rendered", "render_failed"}
    /\ heap' = Free(heap, FreeReportBlocks(report))
    /\ phase' = "freed"
    /\ UNCHANGED <<tree, report, stack, writes, probe, json>>

\* the caller starts over with the same prototype tree; the blocks of the
\* released report are forgotten
AnalyzeAgain ==
    /\ phase = "freed"
    /\ Len(json) < MaxRuns
    /\ phase' = "init"
    /\ report' = [functions |-> <<>>, globals |-> <<>>]
    /\ writes' = <<>>
    /\ heap' = EmptyHeap
    /\ UNCHANGED <<tree, stack, probe, json>>

NextRun == Next \/ RenderJson \/ FreeReport \/ AnalyzeAgain

\* the prototype f after luac -s: no source, no local names, no upvalue names
StripProto(f) ==
    [f EXCEPT !.source = NULL, !.locvars = <<>>,
              !.upvalues = [i \in 1..Len(@) |-> NULL]]

RunStmts ==
    { StmtReturnTable,             \* return {.., x = v}
      StmtLocalBigTable,           \* local t = {2^28 items}
      StmtReturnLocal,             \* return t
      StmtSetGlobalFunction,       \* x = function .. end
      StmtPrint,                   \* x(x.y, ...)
      StmtReturnClosureTable }     \* return {f = function .. end, ..}

\* statements of the main function in the inputs of the repeated runs
MaxRunStmts == 3

RunTree(code, stripped) ==
    IF stripped
    THEN [i \in 1..Len(ScanTree(code)) |-> StripProto(ScanTree(code)[i])]
    ELSE ScanTree(code)

InitRun ==
    /\ \E ss \in StmtSeqs(RunStmts, MaxRunStmts) : \E stripped \in BOOLEAN :
          tree = RunTree(Flatten(ss), stripped)
    /\ Start

SpecRun == InitRun /\ [][NextRun]_vars

-----------------------------------------------------------------------------
(* Claims about the memory a report owns *)

\* C26: no block is released twice, no block that was never obtained is
\* released, no record pointer is used after the record list moved, and when
\* free_report has returned no block obtained during the analysis is live
C26_BlocksReleasedOnce ==
    /\ heap.fault = "none"
    /\ heap.live \cap heap.freed = {}
    /\ phase = "freed" => heap.live = {}

\* a report was rendered and released after a walk that stashed a pending
\* binding, recorded a named call site and recorded reads
C26_Witness ==
    /\ phase = "freed"
    /\ json # <<>>
    /\ \E b \in heap.freed : b.kind = "pending_proto"
    /\ \E b \in heap.freed : b.kind = "call_sites[j].callee"
    /\ \E b \in heap.freed : b.kind = "reads[j].field_name"
    /\ \E b \in heap.freed : b.kind = "constants[j].s_val"

-----------------------------------------------------------------------------
(* Claims about repeated runs *)

\* C24: two runs over the same prototype tree, each followed by
\* serialization, return the same string
C24_RunsRenderAlike == Len(json) >= 2 => json[1] = json[2]

\* no NEWTABLE of the tree has a size whose decoding or whose byte estimate
\* leaves the range of int
SizesFitInt ==
    \A id \in 1..Len(tree) : \A pc \in 0..(sizecode(tree[id]) - 1) :
        GET_OPCODE(At(tree[id].code, pc)) = "OP_NEWTABLE"
        => \A arr \in decode_array_size(tree[id], pc) :
           \A hsh \in decode_hash_size(GETARG_B(At(tree[id].code, pc))) :
              /\ decode_array_size(tree[id], pc) = {arr}
              /\ decode_hash_size(GETARG_B(At(tree[id].code, pc))) = {hsh}
              /\ Cardinality(EstimatedBytes16(arr, hsh)) = 1

\* the two strings are the same whenever every table size fits int
RunsRenderAlikeWithinInt == SizesFitInt => C24_RunsRenderAlike

\* two strings were returned for a tree with tables, closures and globals
RunsRenderAlikeWitness ==
    /\ Len(json) >= 2
    /\ SizesFitInt
    /\ \E pc \in 0..(sizecode(tree[RootProto]) - 1) :
          GET_OPCODE(At(tree[RootProto].code, pc)) = "OP_NEWTABLE"
    /\ \E pc \in 0..(sizecode(tree[RootProto]) - 1) :
          GET_OPCODE(At(tree[RootProto].code, pc)) = "OP_SETTABUP"

-----------------------------------------------------------------------------
(* Allocation failure *)

\* the next step of the analysis calls malloc, calloc or realloc
NextStepAllocates == ENABLED (Next /\ heap'.live # heap.live)

\* the allocation of the next step returns NULL.  No result of malloc,
\* calloc or realloc is tested: create_report hands the pointer to
\* push_function, which reads report->num_functions; the push_* helpers
\* index the array realloc returned; str_dup copies into the result of
\* malloc; resolve_callee prints into it.  The access through the null
\* pointer is undefined: the process is stopped by a signal, or the access
\* goes through and the analysis goes on over a damaged report, which is
\* not followed further
AllocationFails ==
    /\ phase \in {"init", "walk"}
    /\ NextStepAllocates
    /\ heap' = [heap EXCEPT !.fault = "null_dereference"]
    /\ phase' \in {"crashed", "corrupt"}
    /\ UNCHANGED <<tree, report, stack, writes, probe, json>>

\* report_to_json_string when open_memstream returns NULL: NULL is returned
\* and the report is left as it was
RenderFails ==
    /\ phase = "done"
    /\ phase' = "render_failed"
    /\ UNCHANGED <<tree, report, stack, writes, probe, heap, json>>

NextFail == NextRun \/ AllocationFails \/ RenderFails

SpecFail == InitRun /\ [][NextFail]_vars

\* C25: after an allocation failed, the operation has returned NULL: no null
\* pointer was dereferenced and the run did not end in a crash or with a
\* damaged report
C25_FailedAllocationReturnsNull ==
    /\ heap.fault # "null_dereference"
    /\ phase \notin {"crashed", "corrupt"}

\* the part of C25 about the memory stream: after open_memstream failed the
\* report can be released and nothing was rendered for that run
MemstreamFailureIsClean ==
    phase = "render_failed" => heap.fault = "none"

-----------------------------------------------------------------------------
(* Prototype trees with more functions than the first capacity of          *)
(* report->functions, so that the list moves while callers are suspended   *)

\* prototypes of a tree in the inputs of the deep walks
DeepProtos == 9

\* a chain, a root with all the others as children, and a binary tree
DeepShapes(n) ==
    { [j \in 2..n |-> j - 1], [j \in 2..n |-> 1], [j \in 2..n |-> j \div 2] }

InitDeep ==
    /\ \E par \in DeepShapes(DeepProtos) :
       \E inner \in WalkBodies : \E leaf \in WalkBodies \ {BodySetFunction} :
          tree = [i \in 1..DeepProtos |->
                    WalkProto(i, ChildrenOf(par, DeepProtos, i),
                              IF ChildrenOf(par, DeepProtos, i) # <<>>
                              THEN inner ELSE leaf)]
    /\ Start

SpecDeep == InitDeep /\ [][Next]_vars

\* the fields of a record that hold the result of its analysis
AnalysisFields(fi) ==
    [source |-> fi.source, line_defined |-> fi.line_defined,
     last_line |-> fi.last_line, param_count |-> fi.param_count,
     is_vararg |-> fi.is_vararg, is_method |-> fi.is_method,
     param_names |-> fi.param_names, upvalue_count |-> fi.upvalue_count,
     upvalue_names |-> fi.upvalue_names, return_kind |-> fi.return_kind,
     table_info |-> fi.table_info, is_vararg_used |-> fi.is_vararg_used,
     closures |-> fi.closures, constants |-> fi.constants,
     call_sites |-> fi.call_sites, reads |-> fi.reads]

\* the record number i (from 1) is not the one whose instructions are being
\* scanned: its scan is complete
ScanComplete(i) == ~(Scanning /\ i = Top.my_index + 1)

\* globals2 is globals with nothing changed but function indices
OnlyIndicesResolved(globals, globals2) ==
    /\ Len(globals2) = Len(globals)
    /\ \A g \in 1..Len(globals) :
          /\ globals2[g].name = globals[g].name
          /\ globals2[g].is_function = globals[g].is_function

\* C28: a step of the walk leaves the analysis fields of every record whose
\* scan is complete as they were and changes its child index list by an
\* append at most; a step that is not a scan step changes the globals in
\* their function indices only; and no step goes through a record pointer
\* taken before report->functions moved
C28_CompletedRecordsFrozen ==
    [][/\ \A i \in 1..Len(report.functions) :
             ScanComplete(i) =>
                /\ i <= Len(report'.functions)
                /\ AnalysisFields(report'.functions[i])
                      = AnalysisFields(report.functions[i])
                /\ \/ report'.functions[i].child_proto_indices
                         = report.functions[i].child_proto_indices
                   \/ /\ Len(report'.functions[i].child_proto_indices)
                            = Len(report.functions[i].child_proto_indices)
                               + 1
                      /\ SubSeq(report'.functions[i].child_proto_indices, 1,
                                Len(report.functions[i].child_proto_indices))
                            = report.functions[i].child_proto_indices
       /\ ~Scanning => OnlyIndicesResolved(report.globals, report'.globals)
       /\ heap'.fault # "stale_record"]_vars

\* the walk is back in a function that stashed a pending binding, all its
\* nested functions are analysed, and report->functions has moved since the
\* function took the pointer to its record
C28_Witness ==
    /\ phase = "walk" /\ stack # <<>>
    /\ Top.pc = sizecode(CurProto)
    /\ Top.i = sizep(CurProto)
    /\ CurFi.num_pending > 0
    /\ CurFi.call_sites # <<>> \/ CurFi.closures # <<>>
    /\ Top.fi_cap # cap_functions(Len(report.functions))

=============================================================================
